---- MODULE Spec2Model ----
(***************************************************************************)
(* CIDARTHA: a byte-indexed prefix-matching trie for CIDR membership       *)
(* tests.  The module models the CIDARTHA4 engine (trie, check cache,      *)
(* guard) and the CIDARTHA5 engine (trie, configurable lookup cache).      *)
(*                                                                         *)
(* A trie is a function from byte paths (<<>> is the root) to node         *)
(* records.  Python's Optional[X] is a set: {} is None, {x} is the value x. *)
(***************************************************************************)
EXTENDS Integers, Sequences, FiniteSets, TLC

\* ---------------------------------------------------------------- bounds
NProbe == 2         \* how many inputs of ProbePool the callers check
CacheCap == 1       \* configured capacity of the check / lookup cache
MaxBatch == 1       \* longest list handed to batch_insert
NThreads == 2       \* threads sharing one engine
MaxEntries == 2     \* longest list of mixed entries handed to batch_insert
MaxEngines == 2  \* engines constructed besides the first

\* ------------------------------------------------------- program constants
ByteBits == 8
V4Len == 4
V6Len == 16

None == {}
Some(x) == {x}
The(o) == CHOOSE x \in o : TRUE

\* ---------------------------------------------------------------- bit ops
RECURSIVE Pow2(_)
Pow2(n) == IF n = 0 THEN 1 ELSE 2 * Pow2(n - 1)

RECURSIVE BitAnd(_, _)
BitAnd(x, y) ==
  IF x = 0 \/ y = 0 THEN 0
  ELSE (x % 2) * (y % 2) + 2 * BitAnd(x \div 2, y \div 2)

RECURSIVE BitOr(_, _)
BitOr(x, y) ==
  IF x = 0 THEN y
  ELSE IF y = 0 THEN x
  ELSE (IF (x % 2) + (y % 2) > 0 THEN 1 ELSE 0) + 2 * BitOr(x \div 2, y \div 2)

\* MASKS = [(0xFF << (8 - i)) & 0xFF for i in range(1, 9)]; MASKS[i] here is
\* the Python MASKS[i - 1]: the byte with its top i bits set.
MASKS == [i \in 1..ByteBits |-> (255 * Pow2(ByteBits - i)) % 256]

\* ------------------------------------------------------------ CIDR parser
\* A CIDR text is [ip |-> the address as written, len |-> the number after
\* the slash].  ip_network(text, strict=False) accepts an IPv4 or IPv6
\* address with a prefix length within the family's width (white space around
\* the text, recorded by a field pad, is not accepted), clears the host
\* bits for the network address and sets them for the broadcast address.
Padded(text) == "pad" \in DOMAIN text

\* str.strip(): the text without the white space around it.
strip(text) == [ip |-> text.ip, len |-> text.len]

\* A blank text spells no address.
Blank(text) == Len(text.ip) = 0

ValidCidr(text) ==
  /\ ~Padded(text)
  /\ Len(text.ip) \in {V4Len, V6Len}
  /\ \A i \in 1..Len(text.ip) : text.ip[i] \in 0..255
  /\ text.len \in 0..(ByteBits * Len(text.ip))

KeptBits(len, i) ==
  LET k == len - ByteBits * (i - 1)
  IN  IF k < 0 THEN 0 ELSE IF k > ByteBits THEN ByteBits ELSE k

NetMaskByte(len, i) == IF KeptBits(len, i) = 0 THEN 0 ELSE MASKS[KeptBits(len, i)]

ip_network(text) ==
  [ network_address |-> [i \in 1..Len(text.ip) |-> BitAnd(text.ip[i], NetMaskByte(text.len, i))],
    broadcast_address |-> [i \in 1..Len(text.ip) |-> BitOr(text.ip[i], 255 - NetMaskByte(text.len, i))],
    prefixlen |-> text.len ]

\* ------------------------------------------------------------------ nodes
CIDARTHANode == [is_end |-> FALSE, range_start |-> None, range_end |-> None, children |-> None]

EmptyTrie == (<<>> :> CIDARTHANode)

\* `not node._children`: the container is None or an empty dict.
NoChildren(node) == node.children = None \/ The(node.children) = {}

\* The child bytes of a node, whichever way "no children" is stored.
ChildBytes(node) == IF node.children = None THEN {} ELSE The(node.children)

\* Mutant: marking flips the terminal flag instead of setting it.
mark_as_end_node_flip(t, path, network) ==
  [t EXCEPT ![path] = [@ EXCEPT !.is_end = ~@,
                                !.range_start = Some(network.network_address),
                                !.range_end = Some(network.broadcast_address)]]

\* _mark_as_end_node / _set_root_as_wildcard
mark_as_end_node(t, path, network) ==
  [t EXCEPT ![path] = [@ EXCEPT !.is_end = TRUE,
                                !.range_start = Some(network.network_address),
                                !.range_end = Some(network.broadcast_address)]]

\* Mutant: the wildcard insert records the range but leaves the root
\* non-terminal.
set_root_as_wildcard_unmarked(t, network) ==
  [t EXCEPT ![<<>>] = [@ EXCEPT !.range_start = Some(network.network_address),
                                !.range_end = Some(network.broadcast_address)]]

set_root_as_wildcard(t, network) == mark_as_end_node(t, <<>>, network)

remove_end_node(t, path) ==
  [t EXCEPT ![path] = [@ EXCEPT !.is_end = FALSE, !.range_start = None, !.range_end = None]]

\* One iteration of the full-byte loop of _insert_cidr: step from the node at
\* `path` to its child b, creating the child (and the container) if missing.
EnsureChild(t, path, b) ==
  IF t[path].children = None
  THEN [t EXCEPT ![path].children = Some({b})] @@ (Append(path, b) :> CIDARTHANode)
  ELSE IF b \in The(t[path].children)
       THEN t
       ELSE [t EXCEPT ![path].children = Some(The(@) \cup {b})] @@ (Append(path, b) :> CIDARTHANode)

RECURSIVE InsertFullBytes(_, _, _, _)
InsertFullBytes(t, addr, i, full_bytes) ==
  IF i > full_bytes THEN t
  ELSE InsertFullBytes(EnsureChild(t, SubSeq(addr, 1, i - 1), addr[i]), addr, i + 1, full_bytes)

\* Mutant: the partial-byte loop stops one value short of the range.
InsertPartial4_short(t, path, base_byte, offset, num_values, network) ==
  LET bytes == {BitOr(base_byte, o) : o \in offset..(num_values - 2)}
      kids == {Append(path, b) : b \in bytes}
  IN  [p \in DOMAIN t \cup kids |->
         IF p \in kids
         THEN [(IF p \in DOMAIN t THEN t[p] ELSE CIDARTHANode)
                 EXCEPT !.is_end = TRUE,
                        !.range_start = Some(network.network_address),
                        !.range_end = Some(network.broadcast_address)]
         ELSE IF p = path /\ bytes # {}
              THEN [t[p] EXCEPT !.children = Some(The(@) \cup bytes)]
              ELSE t[p]]

\* The partial-byte loop of CIDARTHA4._insert_cidr, run from `offset` to its
\* end: every byte value base_byte | offset gets a child (created if
\* missing), and each such child is marked terminal.  The iterations touch
\* distinct children, so their writes are given at once.
InsertPartial4(t, path, base_byte, offset, num_values, network) ==
  LET bytes == {BitOr(base_byte, o) : o \in offset..(num_values - 1)}
      kids == {Append(path, b) : b \in bytes}
  IN  [p \in DOMAIN t \cup kids |->
         IF p \in kids
         THEN [(IF p \in DOMAIN t THEN t[p] ELSE CIDARTHANode)
                 EXCEPT !.is_end = TRUE,
                        !.range_start = Some(network.network_address),
                        !.range_end = Some(network.broadcast_address)]
         ELSE IF p = path /\ bytes # {}
              THEN [t[p] EXCEPT !.children = Some(The(@) \cup bytes)]
              ELSE t[p]]

\* Mutant: the partial byte is not expanded, only the child base_byte is
\* created and marked.
insert_cidr4_base_only(t, network) ==
  IF network.prefixlen = 0 THEN set_root_as_wildcard(t, network)
  ELSE LET addr == network.network_address
           full_bytes == network.prefixlen \div 8
           rem_bits == network.prefixlen % 8
           t1 == InsertFullBytes(t, addr, 1, full_bytes)
       IN  IF rem_bits # 0
           THEN LET b == BitAnd(addr[full_bytes + 1], MASKS[rem_bits])
                IN  mark_as_end_node(EnsureChild(t1, SubSeq(addr, 1, full_bytes), b),
                                     Append(SubSeq(addr, 1, full_bytes), b), network)
           ELSE mark_as_end_node(t1, SubSeq(addr, 1, full_bytes), network)

\* CIDARTHA4._insert_cidr
insert_cidr4(t, network) ==
  IF network.prefixlen = 0 THEN set_root_as_wildcard(t, network)
  ELSE LET addr == network.network_address
           full_bytes == network.prefixlen \div 8
           rem_bits == network.prefixlen % 8
           node == SubSeq(addr, 1, full_bytes)
           t1 == InsertFullBytes(t, addr, 1, full_bytes)
       IN  IF rem_bits # 0
           THEN LET base_byte == BitAnd(addr[full_bytes + 1], MASKS[rem_bits])
                    num_values == Pow2(8 - rem_bits)
                    t2 == IF t1[node].children = None
                          THEN [t1 EXCEPT ![node].children = Some({})]
                          ELSE t1
                IN  InsertPartial4(t2, node, base_byte, 0, num_values, network)
           ELSE mark_as_end_node(t1, node, network)

\* ---------------------------------------------------------------- matcher
\* Mutant: the walk answers true only at a terminal node that carries a
\* range.
RECURSIVE CheckWalk_ranged(_, _, _)
CheckWalk_ranged(t, ip_bytes, i) ==
  IF i > Len(ip_bytes) THEN FALSE
  ELSE LET node == SubSeq(ip_bytes, 1, i - 1)
       IN  IF t[node].children = None THEN FALSE
           ELSE IF ip_bytes[i] \notin The(t[node].children) THEN FALSE
           ELSE IF /\ t[SubSeq(ip_bytes, 1, i)].is_end
                   /\ t[SubSeq(ip_bytes, 1, i)].range_start # None
                THEN TRUE
           ELSE IF t[SubSeq(ip_bytes, 1, i)].is_end THEN FALSE
           ELSE CheckWalk_ranged(t, ip_bytes, i + 1)

\* The loop of _check_impl from byte i on: how many times it steps to a
\* child (children.get(byte) finds one).
RECURSIVE CheckDescents(_, _, _)
CheckDescents(t, ip_bytes, i) ==
  IF i > Len(ip_bytes) THEN 0
  ELSE LET node == SubSeq(ip_bytes, 1, i - 1)
       IN  IF t[node].children = None THEN 0
           ELSE IF ip_bytes[i] \notin The(t[node].children) THEN 0
           ELSE IF t[SubSeq(ip_bytes, 1, i)].is_end THEN 1
           ELSE 1 + CheckDescents(t, ip_bytes, i + 1)

RECURSIVE CheckWalk(_, _, _)
CheckWalk(t, ip_bytes, i) ==
  IF i > Len(ip_bytes) THEN FALSE
  ELSE LET node == SubSeq(ip_bytes, 1, i - 1)
       IN  IF t[node].children = None THEN FALSE
           ELSE IF ip_bytes[i] \notin The(t[node].children) THEN FALSE
           ELSE IF t[SubSeq(ip_bytes, 1, i)].is_end THEN TRUE
           ELSE CheckWalk(t, ip_bytes, i + 1)

check_bytes_impl(t, ip_bytes) ==
  IF t[<<>>].is_end THEN TRUE ELSE CheckWalk(t, ip_bytes, 1)

\* ----------------------------------------------------------------- remove
\* _traverse_path: the list of (parent node, byte to child) along the prefix.
\* A missing child ends the walk early with the path recorded so far.
RECURSIVE TraverseFull(_, _, _, _, _)
TraverseFull(t, address_bytes, i, full_bytes, path) ==
  IF i > full_bytes THEN [path |-> path, complete |-> TRUE]
  ELSE LET node == SubSeq(address_bytes, 1, i - 1)
           byte == address_bytes[i]
           path1 == Append(path, <<node, byte>>)
       IN  IF t[node].children = None THEN [path |-> path1, complete |-> FALSE]
           ELSE IF byte \notin The(t[node].children) THEN [path |-> path1, complete |-> FALSE]
           ELSE TraverseFull(t, address_bytes, i + 1, full_bytes, path1)

traverse_path(t, address_bytes, prefix_len) ==
  LET full_bytes == prefix_len \div 8
      remaining_bits == prefix_len % 8
      walk == TraverseFull(t, address_bytes, 1, full_bytes, <<>>)
  IN  IF walk.complete /\ remaining_bits # 0
      THEN Append(walk.path,
                  << SubSeq(address_bytes, 1, full_bytes),
                     BitAnd(address_bytes[full_bytes + 1], MASKS[remaining_bits]) >>)
      ELSE walk.path

\* Mutant: the deletion drops the parent's whole container, siblings and
\* what hangs below them included.
DeleteChild_container(t, parent, byte) ==
  LET t1 == [q \in {x \in DOMAIN t : Len(x) <= Len(parent) \/ SubSeq(x, 1, Len(parent)) # parent}
               |-> t[q]]
  IN  [t1 EXCEPT ![parent].children = None]

\* Mutant: the emptied dict stays on the parent.
DeleteChild_keeps_dict(t, parent, byte) ==
  LET rest == The(t[parent].children) \ {byte}
      t1 == [q \in DOMAIN t \ {Append(parent, byte)} |-> t[q]]
  IN  [t1 EXCEPT ![parent].children = Some(rest)]

\* del children[byte]; if not children: parent._children = None
DeleteChild(t, parent, byte) ==
  LET rest == The(t[parent].children) \ {byte}
      t1 == [q \in DOMAIN t \ {Append(parent, byte)} |-> t[q]]
  IN  [t1 EXCEPT ![parent].children = IF rest = {} THEN None ELSE Some(rest)]

\* Mutant: the pruning loop ends after its first iteration.
prune_empty_nodes_once(t, path, k) ==
  IF k = 0 THEN t
  ELSE LET parent == path[k][1]
           byte == path[k][2]
       IN  IF t[parent].children = None THEN t
           ELSE IF byte \notin The(t[parent].children) THEN t
           ELSE LET node == t[Append(parent, byte)]
                IN  IF NoChildren(node) /\ ~node.is_end
                    THEN DeleteChild(t, parent, byte)
                    ELSE t

\* _prune_empty_nodes: walk the path in reverse, k is the position in it.
RECURSIVE prune_empty_nodes(_, _, _)
prune_empty_nodes(t, path, k) ==
  IF k = 0 THEN t
  ELSE LET parent == path[k][1]
           byte == path[k][2]
       IN  IF t[parent].children = None THEN prune_empty_nodes(t, path, k - 1)
           ELSE IF byte \notin The(t[parent].children) THEN prune_empty_nodes(t, path, k - 1)
           ELSE LET node == t[Append(parent, byte)]
                IN  IF NoChildren(node) /\ ~node.is_end
                    THEN prune_empty_nodes(DeleteChild(t, parent, byte), path, k - 1)
                    ELSE t

\* Mutant: remove unmarks and prunes but never clears the caches.
remove4_keeps_cache(t, network) ==
  IF network.prefixlen = 0 THEN [root |-> EmptyTrie, cleared |-> FALSE]
  ELSE LET path == traverse_path(t, network.network_address, network.prefixlen)
           parent == path[Len(path)][1]
           final_byte == path[Len(path)][2]
       IN  IF t[parent].children = None THEN [root |-> t, cleared |-> FALSE]
           ELSE IF final_byte \notin The(t[parent].children)
                THEN [root |-> t, cleared |-> FALSE]
                ELSE [root |-> prune_empty_nodes(
                                 remove_end_node(t, Append(parent, final_byte)),
                                 path, Len(path)),
                      cleared |-> FALSE]

\* The body of remove under the guard, for a parsed network: the trie it
\* leaves and whether it ran the cache clears (the early returns do not).
remove4(t, network) ==
  IF network.prefixlen = 0 THEN [root |-> EmptyTrie, cleared |-> TRUE]
  ELSE LET path == traverse_path(t, network.network_address, network.prefixlen)
       IN  IF path = <<>> THEN [root |-> t, cleared |-> FALSE]
           ELSE LET parent == path[Len(path)][1]
                    final_byte == path[Len(path)][2]
                IN  IF t[parent].children = None THEN [root |-> t, cleared |-> FALSE]
                    ELSE IF final_byte \notin The(t[parent].children)
                         THEN [root |-> t, cleared |-> FALSE]
                         ELSE [root |-> prune_empty_nodes(
                                          remove_end_node(t, Append(parent, final_byte)),
                                          path, Len(path)),
                               cleared |-> TRUE]

\* ------------------------------------------------------ address normalizer
\* An address input is [kind, val]: kind "bytes" (val the bytes), "str" (val
\* the address the text spells; inet_pton accepts 4 or 16 bytes in range),
\* "int" (val the integer) or "obj" (val the packed bytes of the object).
RECURSIVE IntToBytes(_)
IntToBytes(n) == IF n < 256 THEN <<n>> ELSE Append(IntToBytes(n \div 256), n % 256)

ValidIp(ip) ==
  CASE ip.kind = "str" -> /\ Len(ip.val) \in {V4Len, V6Len}
                          /\ \A i \in 1..Len(ip.val) : ip.val[i] \in 0..255
    [] ip.kind \in {"bytes", "int", "obj"} -> TRUE
    [] OTHER -> FALSE

\* The lru_cache around _check_impl hashes its argument to build the key:
\* a list (as a bytearray, a dict, a set) cannot be hashed.
Hashable(ip) == ip.kind # "list"

\* The exception check(ip) raises, "none" if it returns: TypeError from the
\* cache wrapper for an argument it cannot hash, before _check_impl runs;
\* ValueError from _ip_to_bytes for a text inet_pton rejects and for a kind
\* it does not handle.
check_raises(ip) ==
  IF ~Hashable(ip) THEN "TypeError"
  ELSE IF ~ValidIp(ip) THEN "ValueError"
  ELSE "none"

ip_to_bytes(ip) ==
  CASE ip.kind = "bytes" -> ip.val
    [] ip.kind = "str" -> ip.val
    [] ip.kind = "int" -> IntToBytes(ip.val)
    [] ip.kind = "obj" -> ip.val

\* ------------------------------------------------------------- lru_cache
\* A cache is a sequence of <<key, value>>, least recently used first.
CacheKeys(cache) == {cache[i][1] : i \in 1..Len(cache)}
CacheIndex(cache, key) == CHOOSE i \in 1..Len(cache) : cache[i][1] = key
CacheGet(cache, key) == cache[CacheIndex(cache, key)][2]
CacheDrop(cache, key) == SelectSeq(cache, LAMBDA e : e[1] # key)
CacheTouch(cache, key) == Append(CacheDrop(cache, key), <<key, CacheGet(cache, key)>>)
\* Mutant: a store into a full cache evicts nothing.
CachePut_unbounded(cache, key, value, maxsize) ==
  IF maxsize = 0 THEN cache
  ELSE IF key \in CacheKeys(cache) THEN cache
  ELSE Append(cache, <<key, value>>)

CachePut(cache, key, value, maxsize) ==
  IF maxsize = 0 THEN cache
  ELSE IF key \in CacheKeys(cache) THEN cache
  ELSE LET c == Append(cache, <<key, value>>)
       IN  IF Len(c) > maxsize THEN Tail(c) ELSE c

\* ------------------------------------------------------------------ inputs
Zeros(n) == [i \in 1..n |-> 0]

\* The CIDR texts the callers use: 10.0.0.0/8, 10.10.0.0/16, 10.0.0.0/12
\* (whose expansion 10.0 .. 10.15 shares the node 10.10 with the /16),
\* 0.0.0.0/0, 2001:db8::/32 and the invalid 10.0.0.0/33.
CidrPool ==
  << [ip |-> <<10, 0, 0, 0>>, len |-> 8],
     [ip |-> <<10, 10, 0, 0>>, len |-> 16],
     [ip |-> <<10, 0, 0, 0>>, len |-> 12],
     [ip |-> <<0, 0, 0, 0>>, len |-> 0],
     [ip |-> <<32, 1, 13, 184>> \o Zeros(12), len |-> 32],
     [ip |-> <<10, 0, 0, 0>>, len |-> 33] >>

ProbePool ==
  << [kind |-> "bytes", val |-> <<10, 10, 5, 5>>],
     [kind |-> "str", val |-> <<10, 5, 5, 5>>],
     [kind |-> "str", val |-> <<32, 1, 13, 184>> \o Zeros(11) \o <<1>>],
     [kind |-> "bytes", val |-> <<10, 16, 0, 1>>],
     [kind |-> "str", val |-> <<1, 2, 3, 4>>] >>

Min(a, b) == IF a < b THEN a ELSE b

Cidrs == {CidrPool[i] : i \in 1..Len(CidrPool)}
Probes == {ProbePool[i] : i \in 1..Min(NProbe, Len(ProbePool))}
Networks == {ip_network(c) : c \in {x \in Cidrs : ValidCidr(x)}}

\* batch_insert is handed a run of consecutive pool texts.
Batches == {SubSeq(CidrPool, i, j) : i \in 1..Len(CidrPool), j \in 0..Len(CidrPool)}
           \cap UNION {[1..n -> Cidrs] : n \in 0..MaxBatch}

\* The addresses the properties quantify over: every probe, a few more, and
\* the first and last address of every pool prefix.
Addresses ==
  {ip_to_bytes(ProbePool[i]) : i \in 1..Len(ProbePool)}
  \cup {<<10, 15, 0, 9>>, <<10, 10, 255, 0>>, <<11, 0, 0, 0>>, <<32, 1, 13, 185>> \o Zeros(12)}
  \cup UNION {{n.network_address, n.broadcast_address} : n \in Networks}

AsBytes(a) == [kind |-> "bytes", val |-> a]

\* Every input a property asks check about.
Inputs == Probes \cup {AsBytes(a) : a \in Addresses}

\* a lies in the address range of the prefix: same family, and the first
\* prefixlen bits agree.
InRange(a, network) ==
  /\ Len(a) = Len(network.network_address)
  /\ \A i \in 1..Len(a) :
       BitAnd(a[i], NetMaskByte(network.prefixlen, i)) = network.network_address[i]

Covered(a, nets) == \E n \in nets : InRange(a, n)

\* ------------------------------------------------------------------- state
VARIABLES
  root,          \* CIDARTHA4: the trie (self.root)
  check_cache,   \* CIDARTHA4: the lru_cache wrapped around _check_impl
  stored,        \* history: networks inserted and not removed since
  phase,         \* history: shape of the run since the trie was last empty
  last,          \* history: the operation that ran last
  config,        \* the engine's configuration (self.config)
  norm_cache,    \* CIDARTHA5: the lru_cache around _ip_to_bytes ("dual")
  lock,          \* the guard (self._lock): its owner and hold count
  thr,           \* the threads: where each is in its operation, its locals
  default_config,\* config.py: the module global _default_config
  engines,       \* the further engines constructed so far, oldest first
  last_set,      \* history: the argument of the latest set_default_config
  waiting,       \* the threads blocked at `with self._lock`, or about to be
  bytes_cache    \* CIDARTHA4: the process-wide lru_cache _ip_to_bytes_cached

vars == <<root, check_cache, stored, phase, last, config, norm_cache, lock, thr,
          default_config, engines, last_set, waiting, bytes_cache>>

\* The configuration module, the further engines and what they share with
\* the first, which are modelled where a property is about them.
globals == <<default_config, engines, last_set, waiting, bytes_cache>>

\* What the one-at-a-time handlers of CIDARTHA4 leave alone.
seq4 == <<config, norm_cache, lock, thr, globals>>

Threads == 1..NThreads
Free == [owner |-> 0, count |-> 0]

\* A thread between two calls.  net, ip: the parsed argument of the call in
\* progress; i, offset: the loop variables; ret: what the call computed.
\* History: answered (the thread's last call was a check that returned),
\* raised (its last call raised), must (when that check started, a returned
\* insert had stored a prefix covering its address).
Idle == [pc |-> "idle", net |-> None, ip |-> None, i |-> 0, offset |-> 0, ret |-> FALSE,
         answered |-> FALSE, raised |-> FALSE, must |-> FALSE]

\* _check_impl(ip): normalize, then walk the trie.
check_impl(t, ip) == check_bytes_impl(t, ip_to_bytes(ip))

\* History of the last operation.  twice: an insert that repeats the insert
\* before it.  stale: for a mutator, the check inputs whose cached answer the
\* mutation made wrong; for a check, its input if the mutator just before it
\* had made its cached answer wrong.
NoOp == [op |-> "none", arg |-> <<>>, raised |-> FALSE, ret |-> FALSE,
         twice |-> FALSE, stale |-> {}]

Did(op, arg, raised, ret, t) ==
  [op |-> op, arg |-> arg, raised |-> raised, ret |-> ret,
   twice |-> (op = "insert" /\ last.op = op /\ last.arg = arg),
   stale |-> IF op = "check"
             THEN {k \in last.stale : last.op # "check" /\ k = arg}
             ELSE {k \in CacheKeys(check_cache) :
                     CacheGet(check_cache, k) # check_impl(t, k)}]

\* A fresh engine (__init__): an empty root, empty caches, a free guard.
Fresh ==
  /\ root = EmptyTrie
  /\ check_cache = <<>>
  /\ norm_cache = <<>>
  /\ stored = {}
  /\ phase = "ins"
  /\ last = NoOp
  /\ lock = Free
  /\ thr = [t \in Threads |-> Idle]
  /\ default_config = None
  /\ engines = <<>>
  /\ last_set = None
  /\ waiting = {}
  /\ bytes_cache = <<>>

Init ==
  /\ Fresh
  /\ config = [check_cache_size |-> CacheCap]

\* ------------------------------------------------------ CIDARTHA4 handlers
\* insert(input_data): parse, _insert_cidr, clear the check cache.
Insert(text) ==
  /\ UNCHANGED seq4
  /\ IF ~ValidCidr(text)
     THEN /\ last' = Did("insert", text, TRUE, FALSE, root)
          /\ UNCHANGED <<root, check_cache, stored, phase>>
     ELSE LET network == ip_network(text)
          IN  /\ root' = insert_cidr4(root, network)
              /\ check_cache' = <<>>
              /\ stored' = stored \cup {network}
              /\ phase' = IF phase = "ins" /\ network \notin stored THEN "ins"
                          ELSE IF phase \in {"ins", "insdup"} THEN "insdup"
                          ELSE "mixed"
              /\ last' = Did("insert", text, FALSE, FALSE, root')

\* Mutant: the loop of batch_insert gives up at the first entry that fails
\* to parse.
RECURSIVE BatchLoop_stops(_, _, _)
BatchLoop_stops(t, entries, k) ==
  IF k > Len(entries) THEN t
  ELSE IF Blank(strip(entries[k])) THEN BatchLoop_stops(t, entries, k + 1)
  ELSE IF ValidCidr(strip(entries[k]))
       THEN BatchLoop_stops(insert_cidr4(t, ip_network(strip(entries[k]))), entries, k + 1)
       ELSE t

\* The loop of batch_insert over entries k..Len(entries): each entry is
\* trimmed; a blank one is skipped, one that fails to parse is logged and
\* skipped.
RECURSIVE BatchLoop(_, _, _)
BatchLoop(t, entries, k) ==
  IF k > Len(entries) THEN t
  ELSE IF Blank(strip(entries[k])) THEN BatchLoop(t, entries, k + 1)
  ELSE IF ValidCidr(strip(entries[k]))
       THEN BatchLoop(insert_cidr4(t, ip_network(strip(entries[k]))), entries, k + 1)
       ELSE BatchLoop(t, entries, k + 1)

\* batch_insert(entries)
BatchInsert(entries) ==
  /\ UNCHANGED seq4
  /\ IF Len(entries) = 0
     THEN /\ last' = Did("batch_insert", entries, FALSE, FALSE, root)
          /\ UNCHANGED <<root, check_cache, stored, phase>>
     ELSE LET nets == {ip_network(strip(entries[k])) :
                         k \in {j \in 1..Len(entries) : ValidCidr(strip(entries[j]))}}
              fresh == /\ nets \cap stored = {}
                       /\ \A j, k \in 1..Len(entries) : entries[j] = entries[k] => j = k
          IN  /\ root' = BatchLoop(root, entries, 1)
              /\ check_cache' = <<>>
              /\ stored' = stored \cup nets
              /\ phase' = IF phase = "ins" /\ fresh THEN "ins"
                          ELSE IF phase \in {"ins", "insdup"} THEN "insdup"
                          ELSE "mixed"
              /\ last' = Did("batch_insert", entries, FALSE, FALSE, root')

\* remove(cidr)
Remove(text) ==
  /\ UNCHANGED seq4
  /\ IF ~ValidCidr(text)
     THEN /\ last' = Did("remove", text, TRUE, FALSE, root)
          /\ UNCHANGED <<root, check_cache, stored, phase>>
     ELSE LET network == ip_network(text)
              r == remove4(root, network)
          IN  /\ root' = r.root
              /\ check_cache' = IF r.cleared THEN <<>> ELSE check_cache
              /\ stored' = stored \ {network}
              /\ phase' = IF phase \in {"ins", "rem"} /\ network \in stored THEN "rem" ELSE "mixed"
              /\ last' = Did("remove", text, FALSE, FALSE, root')

\* Mutant: clear() replaces the root but keeps the check cache.
Clear_keeps_cache ==
  /\ UNCHANGED seq4
  /\ root' = EmptyTrie
  /\ UNCHANGED check_cache
  /\ stored' = {}
  /\ phase' = "ins"
  /\ last' = Did("clear", <<>>, FALSE, FALSE, root')

\* clear()
Clear ==
  /\ UNCHANGED seq4
  /\ root' = EmptyTrie
  /\ check_cache' = <<>>
  /\ stored' = {}
  /\ phase' = "ins"
  /\ last' = Did("clear", <<>>, FALSE, FALSE, root')

\* check(ip): the lru_cache wrapper around _check_impl, keyed on the argument.
Check(ip) ==
  /\ UNCHANGED seq4
  /\ IF config.check_cache_size > 0 /\ ip \in CacheKeys(check_cache)
     THEN /\ check_cache' = CacheTouch(check_cache, ip)
          /\ last' = Did("check", ip, FALSE, CacheGet(check_cache, ip), root)
          /\ UNCHANGED <<root, stored, phase>>
     ELSE IF ~ValidIp(ip)
     THEN /\ last' = Did("check", ip, TRUE, FALSE, root)
          /\ UNCHANGED <<root, check_cache, stored, phase>>
     ELSE /\ check_cache' = CachePut(check_cache, ip, check_impl(root, ip), config.check_cache_size)
          /\ last' = Did("check", ip, FALSE, check_impl(root, ip), root)
          /\ UNCHANGED <<root, stored, phase>>

Next ==
  \/ \E text \in Cidrs : Insert(text)
  \/ \E text \in Cidrs : Remove(text)
  \/ \E entries \in Batches : BatchInsert(entries)
  \/ Clear
  \/ \E ip \in Probes : Check(ip)

Spec == Init /\ [][Next]_vars

\* What check(ip) returns in the current state.
CheckNow(ip) ==
  IF config.check_cache_size > 0 /\ ip \in CacheKeys(check_cache)
  THEN CacheGet(check_cache, ip)
  ELSE check_impl(root, ip)

\* ============================================================== CIDARTHA5
\* CIDARTHA5._insert_cidr: the partial byte becomes one child, base byte b.
insert_cidr5(t, network) ==
  IF network.prefixlen = 0 THEN set_root_as_wildcard(t, network)
  ELSE LET addr == network.network_address
           full_bytes == network.prefixlen \div 8
           rem_bits == network.prefixlen % 8
           t1 == InsertFullBytes(t, addr, 1, full_bytes)
       IN  IF rem_bits # 0
           THEN LET b == BitAnd(addr[full_bytes + 1], MASKS[rem_bits])
                    node == Append(SubSeq(addr, 1, full_bytes), b)
                IN  mark_as_end_node(EnsureChild(t1, SubSeq(addr, 1, full_bytes), b), node, network)
           ELSE mark_as_end_node(t1, SubSeq(addr, 1, full_bytes), network)

\* The body of CIDARTHA5.remove under the guard: the trie it leaves.
remove5(t, network) ==
  IF network.prefixlen = 0 THEN EmptyTrie
  ELSE LET path == traverse_path(t, network.network_address, network.prefixlen)
       IN  IF path = <<>> THEN t
           ELSE LET parent == path[Len(path)][1]
                    final_byte == path[Len(path)][2]
                IN  IF t[parent].children = None THEN t
                    ELSE IF final_byte \notin The(t[parent].children) THEN t
                    ELSE prune_empty_nodes(remove_end_node(t, Append(parent, final_byte)),
                                           path, Len(path))

\* CIDARTHAConfig: the strategies, and the capacities the callers configure.
Strategies == {"none", "simple", "normalized", "dual"}
Configs5 == [cache_strategy : Strategies, cache_size : {0, CacheCap}]

\* Whether _setup_caching wrapped the lookup in an lru_cache.
Caching5 == config.cache_strategy # "none" /\ config.cache_size > 0

\* The CIDR texts the callers of the CIDARTHA5 engine use: 10.0.0.0/12,
\* 10.0.0.0/8, 0.0.0.0/0 and the invalid 10.0.0.0/33.
CidrPool5 == <<CidrPool[3], CidrPool[1], CidrPool[4], CidrPool[6]>>
Cidrs5 == {CidrPool5[i] : i \in 1..Len(CidrPool5)}
Batches5 == {SubSeq(CidrPool5, i, j) : i \in 1..Len(CidrPool5), j \in 0..Len(CidrPool5)}
            \cap UNION {[1..n -> Cidrs5] : n \in 0..MaxBatch}

Init5 ==
  /\ Fresh
  /\ config \in Configs5

seq5 == <<config, lock, thr, globals>>

\* insert(input_data): parse and _insert_cidr; no cache is touched.
Insert5(text) ==
  /\ UNCHANGED <<seq5, check_cache, norm_cache>>
  /\ IF ~ValidCidr(text)
     THEN /\ last' = Did("insert", text, TRUE, FALSE, root)
          /\ UNCHANGED <<root, stored, phase>>
     ELSE LET network == ip_network(text)
          IN  /\ root' = insert_cidr5(root, network)
              /\ stored' = stored \cup {network}
              /\ phase' = IF phase = "ins" /\ network \notin stored THEN "ins"
                          ELSE IF phase \in {"ins", "insdup"} THEN "insdup"
                          ELSE "mixed"
              /\ last' = Did("insert", text, FALSE, FALSE, root')

\* The loop of CIDARTHA5.batch_insert: insert per entry, ValueError skipped.
RECURSIVE BatchLoop5(_, _, _)
BatchLoop5(t, entries, k) ==
  IF k > Len(entries) THEN t
  ELSE IF ValidCidr(entries[k])
       THEN BatchLoop5(insert_cidr5(t, ip_network(entries[k])), entries, k + 1)
       ELSE BatchLoop5(t, entries, k + 1)

BatchInsert5(entries) ==
  /\ UNCHANGED <<seq5, check_cache, norm_cache>>
  /\ LET nets == {ip_network(entries[k]) : k \in {j \in 1..Len(entries) : ValidCidr(entries[j])}}
         fresh == /\ nets \cap stored = {}
                  /\ \A j, k \in 1..Len(entries) : entries[j] = entries[k] => j = k
     IN  /\ root' = BatchLoop5(root, entries, 1)
         /\ stored' = stored \cup nets
         /\ phase' = IF phase = "ins" /\ fresh THEN "ins"
                     ELSE IF phase \in {"ins", "insdup"} THEN "insdup"
                     ELSE "mixed"
         /\ last' = Did("batch_insert", entries, FALSE, FALSE, root')

\* remove(cidr)
Remove5(text) ==
  /\ UNCHANGED <<seq5, check_cache, norm_cache>>
  /\ IF ~ValidCidr(text)
     THEN /\ last' = Did("remove", text, TRUE, FALSE, root)
          /\ UNCHANGED <<root, stored, phase>>
     ELSE LET network == ip_network(text)
          IN  /\ root' = remove5(root, network)
              /\ stored' = stored \ {network}
              /\ phase' = IF phase \in {"ins", "rem"} /\ network \in stored THEN "rem" ELSE "mixed"
              /\ last' = Did("remove", text, FALSE, FALSE, root')

\* clear(): a fresh root; no cache is touched.
Clear5 ==
  /\ UNCHANGED <<seq5, check_cache, norm_cache>>
  /\ root' = EmptyTrie
  /\ stored' = {}
  /\ phase' = "ins"
  /\ last' = Did("clear", <<>>, FALSE, FALSE, root')

\* clear_cache()
ClearCache5 ==
  /\ UNCHANGED <<seq5, root, stored, phase>>
  /\ check_cache' = IF Caching5 THEN <<>> ELSE check_cache
  /\ norm_cache' = IF Caching5 /\ config.cache_strategy = "dual" THEN <<>> ELSE norm_cache
  /\ last' = [NoOp EXCEPT !.op = "clear_cache"]

\* The key of the lookup cache: the argument itself under "simple", the
\* normalized bytes under "normalized" and "dual".
LookupKey(ip) == IF config.cache_strategy = "simple" THEN ip ELSE AsBytes(ip_to_bytes(ip))

\* Mutant: the lookup cache is keyed on the argument as passed, under every
\* strategy.
Check5_keyed_on_input(ip) ==
  /\ UNCHANGED <<seq5, root, stored, phase>>
  /\ IF ~Caching5
     THEN /\ UNCHANGED <<check_cache, norm_cache>>
          /\ last' = IF ValidIp(ip)
                     THEN Did("check", ip, FALSE, check_bytes_impl(root, ip_to_bytes(ip)), root)
                     ELSE Did("check", ip, TRUE, FALSE, root)
     ELSE IF config.cache_strategy = "simple" /\ ip \in CacheKeys(check_cache)
     THEN /\ check_cache' = CacheTouch(check_cache, ip)
          /\ UNCHANGED norm_cache
          /\ last' = Did("check", ip, FALSE, CacheGet(check_cache, ip), root)
     ELSE IF ~ValidIp(ip) /\ ~(config.cache_strategy = "dual" /\ ip \in CacheKeys(norm_cache))
     THEN /\ UNCHANGED <<check_cache, norm_cache>>
          /\ last' = Did("check", ip, TRUE, FALSE, root)
     ELSE LET ip_bytes == IF config.cache_strategy = "dual" /\ ip \in CacheKeys(norm_cache)
                          THEN CacheGet(norm_cache, ip)
                          ELSE ip_to_bytes(ip)
              key == ip
              hit == key \in CacheKeys(check_cache)
              ret == IF hit THEN CacheGet(check_cache, key) ELSE check_bytes_impl(root, ip_bytes)
          IN  /\ norm_cache' = IF config.cache_strategy # "dual" THEN norm_cache
                               ELSE IF ip \in CacheKeys(norm_cache) THEN CacheTouch(norm_cache, ip)
                               ELSE CachePut(norm_cache, ip, ip_bytes, config.cache_size)
              /\ check_cache' = IF hit THEN CacheTouch(check_cache, key)
                                ELSE CachePut(check_cache, key, ret, config.cache_size)
              /\ last' = Did("check", ip, FALSE, ret, root)

\* check(ip): _check_no_cache, _check_normalized or _check_dual, as configured.
Check5(ip) ==
  /\ UNCHANGED <<seq5, root, stored, phase>>
  /\ IF ~Caching5
     THEN /\ UNCHANGED <<check_cache, norm_cache>>
          /\ last' = IF ValidIp(ip)
                     THEN Did("check", ip, FALSE, check_bytes_impl(root, ip_to_bytes(ip)), root)
                     ELSE Did("check", ip, TRUE, FALSE, root)
     ELSE IF config.cache_strategy = "simple" /\ ip \in CacheKeys(check_cache)
     THEN /\ check_cache' = CacheTouch(check_cache, ip)
          /\ UNCHANGED norm_cache
          /\ last' = Did("check", ip, FALSE, CacheGet(check_cache, ip), root)
     ELSE IF ~ValidIp(ip) /\ ~(config.cache_strategy = "dual" /\ ip \in CacheKeys(norm_cache))
     THEN /\ UNCHANGED <<check_cache, norm_cache>>
          /\ last' = Did("check", ip, TRUE, FALSE, root)
     ELSE LET ip_bytes == IF config.cache_strategy = "dual" /\ ip \in CacheKeys(norm_cache)
                          THEN CacheGet(norm_cache, ip)
                          ELSE ip_to_bytes(ip)
              key == IF config.cache_strategy = "simple" THEN ip ELSE AsBytes(ip_bytes)
              hit == key \in CacheKeys(check_cache)
              ret == IF hit THEN CacheGet(check_cache, key) ELSE check_bytes_impl(root, ip_bytes)
          IN  /\ norm_cache' = IF config.cache_strategy # "dual" THEN norm_cache
                               ELSE IF ip \in CacheKeys(norm_cache) THEN CacheTouch(norm_cache, ip)
                               ELSE CachePut(norm_cache, ip, ip_bytes, config.cache_size)
              /\ check_cache' = IF hit THEN CacheTouch(check_cache, key)
                                ELSE CachePut(check_cache, key, ret, config.cache_size)
              /\ last' = Did("check", ip, FALSE, ret, root)

Next5 ==
  \/ \E text \in Cidrs5 : Insert5(text)
  \/ \E text \in Cidrs5 : Remove5(text)
  \/ \E entries \in Batches5 : BatchInsert5(entries)
  \/ Clear5
  \/ ClearCache5
  \/ \E ip \in Probes : Check5(ip)

Spec5 == Init5 /\ [][Next5]_vars

\* What CIDARTHA5.check(ip) returns in the current state.
CheckNow5(ip) ==
  IF Caching5 /\ LookupKey(ip) \in CacheKeys(check_cache)
  THEN CacheGet(check_cache, LookupKey(ip))
  ELSE check_bytes_impl(root, ip_to_bytes(ip))

\* =================================================== CIDARTHA4, concurrent
\* Threads call insert and check on one engine.  insert runs under the guard;
\* check takes no guard: the lru_cache wrapper looks the key up, calls
\* _check_impl on a miss and stores the result afterwards.  A thread switch
\* may fall between any two steps below.
\*
\* Thread t inserts prefixes of its own family 10.t.0.0/16 (one of them of a
\* length that is not a multiple of 8, and one text that does not parse);
\* every thread checks an address of any family.
ThreadCidrs(t) ==
  { [ip |-> <<10, t, 0, 0>>, len |-> 16],
    [ip |-> <<10, t, 128, 0>>, len |-> 23],
    [ip |-> <<10, t, 0, 0>>, len |-> 33] }

ThreadProbes == {[kind |-> "str", val |-> <<10, t, 129, 1>>] : t \in Threads}

seqC == <<phase, last, config, norm_cache, globals>>

\* Mutant: the guard lets a thread in whoever holds it.
Acquire_unguarded(t) ==
  lock' = [owner |-> t, count |-> 1]

\* with self._lock: a thread enters when no other thread holds the guard.
Acquire(t) ==
  /\ lock.owner \in {0, t}
  /\ lock' = [owner |-> t, count |-> lock.count + 1]

\* Mutant: a call that raises leaves the guard held.
Release_unless_raised(t) ==
  /\ lock.owner = t
  /\ lock' = IF thr[t].raised THEN lock
             ELSE IF lock.count = 1 THEN Free ELSE [lock EXCEPT !.count = @ - 1]

Release(t) ==
  /\ lock.owner = t
  /\ lock' = IF lock.count = 1 THEN Free ELSE [lock EXCEPT !.count = @ - 1]

\* insert: enter the guard and parse the text (ValueError leaves the guard).
InsertBegin(t, text) ==
  /\ thr[t].pc = "idle"
  /\ Acquire(t)
  /\ thr' = [thr EXCEPT ![t] =
               IF ValidCidr(text)
               THEN [Idle EXCEPT !.pc = "ins_walk", !.net = Some(ip_network(text)), !.i = 1]
               ELSE [Idle EXCEPT !.pc = "ins_end", !.raised = TRUE]]
  /\ UNCHANGED <<root, check_cache, stored, seqC>>

\* _insert_cidr, one step: the wildcard marking, one iteration of the
\* full-byte loop, one iteration of the partial-byte loop, or the marking of
\* the node of a full-byte prefix.
InsertStep(t) ==
  /\ thr[t].pc = "ins_walk"
  /\ LET network == The(thr[t].net)
         addr == network.network_address
         full_bytes == network.prefixlen \div 8
         rem_bits == network.prefixlen % 8
         node == SubSeq(addr, 1, full_bytes)
         i == thr[t].i
         offset == thr[t].offset
     IN  IF network.prefixlen = 0
         THEN /\ root' = set_root_as_wildcard(root, network)
              /\ thr' = [thr EXCEPT ![t].pc = "ins_clear"]
         ELSE IF i <= full_bytes
         THEN /\ root' = EnsureChild(root, SubSeq(addr, 1, i - 1), addr[i])
              /\ thr' = [thr EXCEPT ![t].i = i + 1]
         ELSE IF rem_bits # 0
         THEN LET base_byte == BitAnd(addr[full_bytes + 1], MASKS[rem_bits])
                  num_values == Pow2(8 - rem_bits)
                  t2 == IF root[node].children = None
                        THEN [root EXCEPT ![node].children = Some({})]
                        ELSE root
              IN  /\ root' = InsertPartial4(t2, node, base_byte, offset, offset + 1, network)
                  /\ thr' = [thr EXCEPT ![t].offset = offset + 1,
                                        ![t].pc = IF offset + 1 >= num_values
                                                  THEN "ins_clear" ELSE "ins_walk"]
         ELSE /\ root' = mark_as_end_node(root, node, network)
              /\ thr' = [thr EXCEPT ![t].pc = "ins_clear"]
  /\ UNCHANGED <<check_cache, stored, lock, seqC>>

\* self.check.cache_clear()
InsertClearCache(t) ==
  /\ thr[t].pc = "ins_clear"
  /\ check_cache' = <<>>
  /\ thr' = [thr EXCEPT ![t].pc = "ins_end"]
  /\ UNCHANGED <<root, stored, lock, seqC>>

\* insert leaves the guard and returns (or lets the ValueError through).
InsertEnd(t) ==
  /\ thr[t].pc = "ins_end"
  /\ Release(t)
  /\ stored' = IF thr[t].raised THEN stored ELSE stored \cup thr[t].net
  /\ thr' = [thr EXCEPT ![t] = [Idle EXCEPT !.raised = thr[t].raised]]
  /\ UNCHANGED <<root, check_cache, seqC>>

\* check(ip): the cache lookup.  A hit returns the cached answer, a miss goes
\* on to _check_impl.
CheckBegin(t, ip) ==
  /\ thr[t].pc = "idle"
  /\ LET must == ValidIp(ip) /\ Covered(ip_to_bytes(ip), stored)
     IN  IF config.check_cache_size > 0 /\ ip \in CacheKeys(check_cache)
         THEN /\ check_cache' = CacheTouch(check_cache, ip)
              /\ thr' = [thr EXCEPT ![t] = [Idle EXCEPT !.answered = TRUE, !.must = must,
                                                        !.ret = CacheGet(check_cache, ip)]]
         ELSE /\ UNCHANGED check_cache
              /\ thr' = [thr EXCEPT ![t] = [Idle EXCEPT !.pc = "chk_root", !.ip = Some(ip),
                                                        !.must = must]]
  /\ UNCHANGED <<root, stored, lock, seqC>>

\* _check_impl: normalize the argument, test the root.
CheckRoot(t) ==
  /\ thr[t].pc = "chk_root"
  /\ thr' = [thr EXCEPT ![t] =
               IF ~ValidIp(The(thr[t].ip))
               THEN [Idle EXCEPT !.raised = TRUE, !.must = thr[t].must]
               ELSE IF root[<<>>].is_end
               THEN [@ EXCEPT !.pc = "chk_store", !.ret = TRUE]
               ELSE [@ EXCEPT !.pc = "chk_walk", !.i = 1]]
  /\ UNCHANGED <<root, check_cache, stored, lock, seqC>>

\* _check_impl: one iteration of the descent.
CheckStep(t) ==
  /\ thr[t].pc = "chk_walk"
  /\ LET ip_bytes == ip_to_bytes(The(thr[t].ip))
         i == thr[t].i
         node == SubSeq(ip_bytes, 1, i - 1)
         done(ret) == [thr EXCEPT ![t].pc = "chk_store", ![t].ret = ret]
     IN  thr' = IF i > Len(ip_bytes) THEN done(FALSE)
                ELSE IF root[node].children = None THEN done(FALSE)
                ELSE IF ip_bytes[i] \notin The(root[node].children) THEN done(FALSE)
                ELSE IF root[SubSeq(ip_bytes, 1, i)].is_end THEN done(TRUE)
                ELSE [thr EXCEPT ![t].i = i + 1]
  /\ UNCHANGED <<root, check_cache, stored, lock, seqC>>

\* The wrapper stores the computed answer (unless the key got there in the
\* meantime) and check returns it.
CheckStore(t) ==
  /\ thr[t].pc = "chk_store"
  /\ check_cache' = CachePut(check_cache, The(thr[t].ip), thr[t].ret, config.check_cache_size)
  /\ thr' = [thr EXCEPT ![t] = [Idle EXCEPT !.answered = TRUE, !.must = thr[t].must,
                                            !.ret = thr[t].ret]]
  /\ UNCHANGED <<root, stored, lock, seqC>>

NextC ==
  \/ \E t \in Threads : \E text \in ThreadCidrs(t) : InsertBegin(t, text)
  \/ \E t \in Threads : InsertStep(t)
  \/ \E t \in Threads : InsertClearCache(t)
  \/ \E t \in Threads : InsertEnd(t)
  \/ \E t \in Threads : \E ip \in ThreadProbes : CheckBegin(t, ip)
  \/ \E t \in Threads : CheckRoot(t)
  \/ \E t \in Threads : CheckStep(t)
  \/ \E t \in Threads : CheckStore(t)

SpecC == Init /\ [][NextC]_vars

\* ================================ CIDARTHA4, every operation, concurrent
\* Threads call insert, remove, clear, batch_insert and check on one engine.
\* The mutators run under the guard, one trie write per step; check takes no
\* guard.  All threads work on the same prefixes: 10.0.0.0/15 (expanded into
\* the children 10.0 and 10.1), 10.1.0.0/16, 0.0.0.0/0 and two texts that
\* do not parse: 10.0.0.0/33 and 10.0.0.256/8.
CidrsM ==
  { [ip |-> <<10, 0, 0, 0>>, len |-> 15],
    [ip |-> <<10, 1, 0, 0>>, len |-> 16],
    [ip |-> <<0, 0, 0, 0>>, len |-> 0],
    [ip |-> <<10, 0, 0, 0>>, len |-> 33],
    [ip |-> <<10, 0, 0, 256>>, len |-> 8] }

ProbesM == {[kind |-> "str", val |-> <<10, 1, 5, 5>>]}

\* batch_insert is handed the empty list or a list with an entry that does
\* not parse between two that do.
BatchesM ==
  { <<>>,
    << [ip |-> <<10, 0, 0, 0>>, len |-> 15],
       [ip |-> <<10, 0, 0, 0>>, len |-> 33],
       [ip |-> <<10, 1, 0, 0>>, len |-> 16] >> }

\* A thread between two calls.  op: the call in progress; net, entries, k,
\* i, offset, path: its arguments and loop variables; ip, snap, ret: the
\* argument of a check, the detached nodes it still holds (None: it reads the
\* live trie) and its answer; stack, out: the to_compact_tuple calls of a
\* dump that have not returned, and the bytes dump returned.  History: raised (the last call raised), pre
\* and post (the trie when the mutator entered the guard, and the trie the
\* mutator leaves when run alone from there), clears (cache clears of this
\* call), cand (which of pre and post agree with every read this check made
\* while the current mutator was running).
IdleM ==
  [pc |-> "idle", op |-> "none", net |-> None, entries |-> <<>>, k |-> 0, i |-> 0,
   offset |-> 0, path |-> <<>>, ip |-> None, snap |-> None, ret |-> FALSE,
   raised |-> FALSE, pre |-> None, post |-> None, clears |-> 0, cand |-> {"pre", "post"},
   stack |-> <<>>, out |-> None]

InitM ==
  /\ root = EmptyTrie
  /\ check_cache = <<>>
  /\ norm_cache = <<>>
  /\ stored = {}
  /\ phase = "ins"
  /\ last = NoOp
  /\ lock = Free
  /\ config = [check_cache_size |-> CacheCap]
  /\ thr = [t \in Threads |-> IdleM]
  /\ default_config = None
  /\ engines = <<>>
  /\ last_set = None
  /\ waiting = {}
  /\ bytes_cache = <<>>

\* Every check in progress starts afresh on which of pre and post it has
\* seen: a mutator enters or leaves the guard.
ResetCand(th) == [u \in Threads |-> [th[u] EXCEPT !.cand = {"pre", "post"}]]

\* The mutator owning the guard, if it is running.
Mutating(t) == thr[t].pc \in {"walk", "bat_next", "root_new", "rm_unmark", "rm_prune",
                              "clear_cache", "exit"}

\* insert(input_data): enter the guard, parse.
InsertEnter(t, text) ==
  /\ thr[t].pc = "idle"
  /\ Acquire(t)
  /\ thr' = ResetCand([thr EXCEPT ![t] =
               IF ValidCidr(text)
               THEN [IdleM EXCEPT !.pc = "walk", !.op = "insert",
                                  !.net = Some(ip_network(text)), !.i = 1,
                                  !.pre = Some(root),
                                  !.post = Some(insert_cidr4(root, ip_network(text)))]
               ELSE [IdleM EXCEPT !.pc = "exit", !.op = "insert", !.raised = TRUE,
                                  !.pre = Some(root), !.post = Some(root)]])
  /\ UNCHANGED <<root, check_cache, stored, seqC>>

\* remove(cidr): enter the guard, parse; a /0 prefix replaces the root;
\* otherwise _traverse_path, and return if the target node is missing.
RemoveEnter(t, text) ==
  /\ thr[t].pc = "idle"
  /\ Acquire(t)
  /\ thr' = ResetCand([thr EXCEPT ![t] =
               IF ~ValidCidr(text)
               THEN [IdleM EXCEPT !.pc = "exit", !.op = "remove", !.raised = TRUE,
                                  !.pre = Some(root), !.post = Some(root)]
               ELSE LET network == ip_network(text)
                        path == traverse_path(root, network.network_address, network.prefixlen)
                        body == [IdleM EXCEPT !.op = "remove", !.net = Some(network),
                                              !.pre = Some(root),
                                              !.post = Some(remove4(root, network).root)]
                    IN  IF network.prefixlen = 0 THEN [body EXCEPT !.pc = "root_new"]
                        ELSE IF path = <<>> THEN [body EXCEPT !.pc = "exit"]
                        ELSE IF root[path[Len(path)][1]].children = None
                        THEN [body EXCEPT !.pc = "exit"]
                        ELSE IF path[Len(path)][2] \notin The(root[path[Len(path)][1]].children)
                        THEN [body EXCEPT !.pc = "exit"]
                        ELSE [body EXCEPT !.pc = "rm_unmark", !.path = path, !.k = Len(path)]])
  /\ UNCHANGED <<root, check_cache, stored, seqC>>

\* clear(): enter the guard.
ClearEnter(t) ==
  /\ thr[t].pc = "idle"
  /\ Acquire(t)
  /\ thr' = ResetCand([thr EXCEPT ![t] =
               [IdleM EXCEPT !.pc = "root_new", !.op = "clear",
                             !.pre = Some(root), !.post = Some(EmptyTrie)]])
  /\ UNCHANGED <<root, check_cache, stored, seqC>>

\* batch_insert(entries): an empty list returns at once, without the guard.
BatchEnter(t, entries) ==
  /\ thr[t].pc = "idle"
  /\ IF Len(entries) = 0
     THEN /\ thr' = [thr EXCEPT ![t] = [IdleM EXCEPT !.cand = thr[t].cand]]
          /\ UNCHANGED lock
     ELSE /\ Acquire(t)
          /\ thr' = ResetCand([thr EXCEPT ![t] =
                       [IdleM EXCEPT !.pc = "bat_next", !.op = "batch_insert",
                                     !.entries = entries, !.k = 1,
                                     !.pre = Some(root),
                                     !.post = Some(BatchLoop(root, entries, 1))]])
  /\ UNCHANGED <<root, check_cache, stored, seqC>>

\* Mutant: the head of the loop clears the check cache at every entry.
BatchNext_clears_each(t) ==
  /\ thr[t].pc = "bat_next"
  /\ LET k == thr[t].k
         entries == thr[t].entries
     IN  /\ thr' = [thr EXCEPT ![t] =
                      IF k > Len(entries) THEN [@ EXCEPT !.pc = "clear_cache"]
                      ELSE IF Blank(strip(entries[k])) \/ ~ValidCidr(strip(entries[k]))
                      THEN [@ EXCEPT !.k = k + 1, !.clears = @ + 1]
                      ELSE [@ EXCEPT !.pc = "walk", !.net = Some(ip_network(strip(entries[k]))),
                                     !.i = 1, !.offset = 0, !.clears = @ + 1]]
         /\ check_cache' = IF k > Len(entries) THEN check_cache ELSE <<>>
  /\ UNCHANGED <<root, stored, lock, seqC>>

\* batch_insert, the head of the loop: past the last entry go on to the
\* cache clear; skip a blank entry and an entry that does not parse; hand any
\* other entry to _insert_cidr.
BatchNext(t) ==
  /\ thr[t].pc = "bat_next"
  /\ LET k == thr[t].k
         entries == thr[t].entries
     IN  thr' = [thr EXCEPT ![t] =
                   IF k > Len(entries) THEN [@ EXCEPT !.pc = "clear_cache"]
                   ELSE IF Blank(strip(entries[k])) \/ ~ValidCidr(strip(entries[k]))
                   THEN [@ EXCEPT !.k = k + 1]
                   ELSE [@ EXCEPT !.pc = "walk", !.net = Some(ip_network(strip(entries[k]))),
                                  !.i = 1, !.offset = 0]]
  /\ UNCHANGED <<root, check_cache, stored, lock, seqC>>

\* _insert_cidr, one step (as InsertStep), for insert and for an entry of
\* batch_insert.
WriteStep(t) ==
  /\ thr[t].pc = "walk"
  /\ LET network == The(thr[t].net)
         addr == network.network_address
         full_bytes == network.prefixlen \div 8
         rem_bits == network.prefixlen % 8
         node == SubSeq(addr, 1, full_bytes)
         i == thr[t].i
         offset == thr[t].offset
         done == IF thr[t].op = "insert"
                 THEN [thr EXCEPT ![t].pc = "clear_cache"]
                 ELSE [thr EXCEPT ![t].pc = "bat_next", ![t].k = @ + 1]
     IN  IF network.prefixlen = 0
         THEN /\ root' = set_root_as_wildcard(root, network)
              /\ thr' = done
         ELSE IF i <= full_bytes
         THEN /\ root' = EnsureChild(root, SubSeq(addr, 1, i - 1), addr[i])
              /\ thr' = [thr EXCEPT ![t].i = i + 1]
         ELSE IF rem_bits # 0
         THEN LET base_byte == BitAnd(addr[full_bytes + 1], MASKS[rem_bits])
                  num_values == Pow2(8 - rem_bits)
                  t2 == IF root[node].children = None
                        THEN [root EXCEPT ![node].children = Some({})]
                        ELSE root
              IN  /\ root' = InsertPartial4(t2, node, base_byte, offset, offset + 1, network)
                  /\ thr' = IF offset + 1 >= num_values THEN done
                            ELSE [thr EXCEPT ![t].offset = offset + 1]
         ELSE /\ root' = mark_as_end_node(root, node, network)
              /\ thr' = done
  /\ UNCHANGED <<check_cache, stored, lock, seqC>>

\* self.root = CIDARTHANode() (clear, and remove of a /0 prefix): a check on
\* its way down, and a dump on its way through, keep the nodes of the old
\* trie.
ReplaceRoot(t) ==
  /\ thr[t].pc = "root_new"
  /\ root' = EmptyTrie
  /\ thr' = [u \in Threads |->
               IF u = t THEN [thr[u] EXCEPT !.pc = "clear_cache"]
               ELSE IF thr[u].pc \in {"chk_walk", "dmp"} /\ thr[u].snap = None
               THEN [thr[u] EXCEPT !.snap = Some(root)]
               ELSE thr[u]]
  /\ UNCHANGED <<check_cache, stored, lock, seqC>>

\* remove: _remove_end_node(node)
Unmark(t) ==
  /\ thr[t].pc = "rm_unmark"
  /\ LET path == thr[t].path
     IN  root' = remove_end_node(root, Append(path[Len(path)][1], path[Len(path)][2]))
  /\ thr' = [thr EXCEPT ![t].pc = "rm_prune"]
  /\ UNCHANGED <<check_cache, stored, lock, seqC>>

\* _prune_empty_nodes, one iteration (k counts down the path; the loop ends
\* at 0 or at the first node that is terminal or has children).  A check
\* standing on the deleted node keeps it.
PruneStep(t) ==
  /\ thr[t].pc = "rm_prune"
  /\ LET path == thr[t].path
         k == thr[t].k
     IN  IF k = 0
         THEN /\ thr' = [thr EXCEPT ![t].pc = "clear_cache"]
              /\ UNCHANGED root
         ELSE LET parent == path[k][1]
                  byte == path[k][2]
                  child == Append(parent, byte)
                  found == root[parent].children # None /\ byte \in The(root[parent].children)
                  deleted == found /\ NoChildren(root[child]) /\ ~root[child].is_end
              IN  /\ root' = prune_empty_nodes(root, <<path[k]>>, 1)
                  /\ thr' = [u \in Threads |->
                               IF u = t
                               THEN [thr[u] EXCEPT !.k = IF found /\ ~deleted THEN 0 ELSE k - 1]
                               ELSE IF /\ deleted
                                       /\ thr[u].pc = "chk_walk" /\ thr[u].snap = None
                                       /\ SubSeq(ip_to_bytes(The(thr[u].ip)), 1, thr[u].i - 1) = child
                               THEN [thr[u] EXCEPT !.snap = Some(child :> CIDARTHANode)]
                               ELSE thr[u]]
  /\ UNCHANGED <<check_cache, stored, lock, seqC>>

\* self.check.cache_clear()
ClearCaches(t) ==
  /\ thr[t].pc = "clear_cache"
  /\ check_cache' = <<>>
  /\ thr' = [thr EXCEPT ![t].pc = "exit", ![t].clears = @ + 1]
  /\ UNCHANGED <<root, stored, lock, seqC>>

\* The mutator leaves the guard and returns (or lets the ValueError through).
Exit(t) ==
  /\ thr[t].pc = "exit"
  /\ Release(t)
  /\ stored' = IF thr[t].raised THEN stored
               ELSE IF thr[t].op = "insert" THEN stored \cup thr[t].net
               ELSE IF thr[t].op = "remove" THEN stored \ thr[t].net
               ELSE IF thr[t].op = "clear" THEN {}
               ELSE stored \cup {ip_network(strip(thr[t].entries[j])) :
                                   j \in {x \in 1..Len(thr[t].entries) :
                                            ValidCidr(strip(thr[t].entries[x]))}}
  /\ thr' = ResetCand([thr EXCEPT ![t] = [IdleM EXCEPT !.raised = thr[t].raised]])
  /\ UNCHANGED <<root, check_cache, seqC>>

\* The trie a check reads: the live one, or the detached nodes it holds.
View(t) == IF thr[t].snap = None THEN root ELSE The(thr[t].snap)

\* A read of the live trie while a mutator runs keeps, of pre and post, those
\* in which the node read (q, or q's child b) is as the check saw it.
Agreeing(t, q, b) ==
  LET o == lock.owner
      trie(c) == IF c = "pre" THEN The(thr[o].pre) ELSE The(thr[o].post)
      same(c) == IF b = -1
                 THEN trie(c)[q].is_end = root[q].is_end
                 ELSE /\ q \in DOMAIN trie(c)
                      /\ (b \in ChildBytes(trie(c)[q])) = (b \in ChildBytes(root[q]))
                      /\ b \in ChildBytes(root[q])
                           => trie(c)[Append(q, b)].is_end = root[Append(q, b)].is_end
  IN  IF o = 0 \/ thr[t].snap # None THEN thr[t].cand
      ELSE {c \in thr[t].cand : same(c)}

\* check(ip): the cache lookup.
CheckLookup(t, ip) ==
  /\ thr[t].pc = "idle"
  /\ IF config.check_cache_size > 0 /\ ip \in CacheKeys(check_cache)
     THEN /\ check_cache' = CacheTouch(check_cache, ip)
          /\ thr' = [thr EXCEPT ![t] = [IdleM EXCEPT !.op = "check",
                                                    !.ret = CacheGet(check_cache, ip)]]
     ELSE /\ UNCHANGED check_cache
          /\ thr' = [thr EXCEPT ![t] = [IdleM EXCEPT !.pc = "chk_root", !.op = "check",
                                                    !.ip = Some(ip)]]
  /\ UNCHANGED <<root, stored, lock, seqC>>

\* _check_impl: normalize the argument, test the root.
CheckRootM(t) ==
  /\ thr[t].pc = "chk_root"
  /\ thr' = [thr EXCEPT ![t] =
               IF ~ValidIp(The(thr[t].ip))
               THEN [IdleM EXCEPT !.op = "check", !.raised = TRUE]
               ELSE IF root[<<>>].is_end
               THEN [@ EXCEPT !.pc = "chk_store", !.ret = TRUE, !.cand = Agreeing(t, <<>>, -1)]
               ELSE [@ EXCEPT !.pc = "chk_walk", !.i = 1, !.cand = Agreeing(t, <<>>, -1)]]
  /\ UNCHANGED <<root, check_cache, stored, lock, seqC>>

\* _check_impl: one iteration of the descent.
CheckDescend(t) ==
  /\ thr[t].pc = "chk_walk"
  /\ LET ip_bytes == ip_to_bytes(The(thr[t].ip))
         i == thr[t].i
         node == SubSeq(ip_bytes, 1, i - 1)
         view == View(t)
         done(ret) == [thr EXCEPT ![t].pc = "chk_store", ![t].ret = ret,
                                  ![t].cand = Agreeing(t, node, ip_bytes[i])]
     IN  thr' = IF i > Len(ip_bytes) THEN [thr EXCEPT ![t].pc = "chk_store", ![t].ret = FALSE]
                ELSE IF view[node].children = None THEN done(FALSE)
                ELSE IF ip_bytes[i] \notin The(view[node].children) THEN done(FALSE)
                ELSE IF view[SubSeq(ip_bytes, 1, i)].is_end THEN done(TRUE)
                ELSE [thr EXCEPT ![t].i = i + 1, ![t].cand = Agreeing(t, node, ip_bytes[i])]
  /\ UNCHANGED <<root, check_cache, stored, lock, seqC>>

\* The wrapper stores the computed answer and check returns it.
CheckReturn(t) ==
  /\ thr[t].pc = "chk_store"
  /\ check_cache' = CachePut(check_cache, The(thr[t].ip), thr[t].ret, config.check_cache_size)
  /\ thr' = [thr EXCEPT ![t] = [IdleM EXCEPT !.op = "check", !.ret = thr[t].ret,
                                            !.cand = thr[t].cand]]
  /\ UNCHANGED <<root, stored, lock, seqC>>

NextM ==
  \/ \E t \in Threads : \E text \in CidrsM : InsertEnter(t, text)
  \/ \E t \in Threads : \E text \in CidrsM : RemoveEnter(t, text)
  \/ \E t \in Threads : ClearEnter(t)
  \/ \E t \in Threads : \E entries \in BatchesM : BatchEnter(t, entries)
  \/ \E t \in Threads : BatchNext(t)
  \/ \E t \in Threads : WriteStep(t)
  \/ \E t \in Threads : ReplaceRoot(t)
  \/ \E t \in Threads : Unmark(t)
  \/ \E t \in Threads : PruneStep(t)
  \/ \E t \in Threads : ClearCaches(t)
  \/ \E t \in Threads : Exit(t)
  \/ \E t \in Threads : \E ip \in ProbesM : CheckLookup(t, ip)
  \/ \E t \in Threads : CheckRootM(t)
  \/ \E t \in Threads : CheckDescend(t)
  \/ \E t \in Threads : CheckReturn(t)

SpecM == InitM /\ [][NextM]_vars

\* The same engine with each check run as one step: the mutators still
\* contend for the guard write by write, the threads outside the guard are
\* between calls.
CheckWhole(t, ip) ==
  /\ thr[t].pc = "idle"
  /\ IF config.check_cache_size > 0 /\ ip \in CacheKeys(check_cache)
     THEN /\ check_cache' = CacheTouch(check_cache, ip)
          /\ thr' = [thr EXCEPT ![t] = [IdleM EXCEPT !.op = "check",
                                                    !.ret = CacheGet(check_cache, ip)]]
     ELSE IF ~ValidIp(ip)
     THEN /\ UNCHANGED check_cache
          /\ thr' = [thr EXCEPT ![t] = [IdleM EXCEPT !.op = "check", !.raised = TRUE]]
     ELSE /\ check_cache' = CachePut(check_cache, ip, check_impl(root, ip), config.check_cache_size)
          /\ thr' = [thr EXCEPT ![t] = [IdleM EXCEPT !.op = "check",
                                                    !.ret = check_impl(root, ip)]]
  /\ UNCHANGED <<root, stored, lock, seqC>>

NextG ==
  \/ \E t \in Threads : \E text \in CidrsM : InsertEnter(t, text)
  \/ \E t \in Threads : \E text \in CidrsM : RemoveEnter(t, text)
  \/ \E t \in Threads : ClearEnter(t)
  \/ \E t \in Threads : \E entries \in BatchesM : BatchEnter(t, entries)
  \/ \E t \in Threads : BatchNext(t)
  \/ \E t \in Threads : WriteStep(t)
  \/ \E t \in Threads : ReplaceRoot(t)
  \/ \E t \in Threads : Unmark(t)
  \/ \E t \in Threads : PruneStep(t)
  \/ \E t \in Threads : ClearCaches(t)
  \/ \E t \in Threads : Exit(t)
  \/ \E t \in Threads : \E ip \in ProbesM : CheckWhole(t, ip)

SpecG == InitM /\ [][NextG]_vars

\* ============================================== CIDARTHA4, waiting threads
\* Threads that keep calling mutators.  A thread in `waiting` is at
\* `with self._lock` of its next call and stays a caller from then on: it
\* enters when the guard is free and it is the one picked.  threading.RLock
\* does not say which of the threads blocked on it proceeds at a release.
CidrsL ==
  { [ip |-> <<10, 1, 0, 0>>, len |-> 16],
    [ip |-> <<0, 0, 0, 0>>, len |-> 0],
    [ip |-> <<10, 0, 0, 0>>, len |-> 33] }

BatchesL == {<<>>, << [ip |-> <<10, 1, 0, 0>>, len |-> 16] >>}

\* A thread reaches `with self._lock`.
Request(t) ==
  /\ thr[t].pc = "idle"
  /\ t \notin waiting
  /\ waiting' = waiting \cup {t}
  /\ UNCHANGED <<root, check_cache, stored, phase, last, config, norm_cache, lock, thr,
                 default_config, engines, last_set, bytes_cache>>

\* The calls that take the guard.
EnterL(t) ==
  \/ \E text \in CidrsL : InsertEnter(t, text)
  \/ \E text \in CidrsL : RemoveEnter(t, text)
  \/ ClearEnter(t)
  \/ \E entries \in BatchesL \ {<<>>} : BatchEnter(t, entries)

\* The steps of a thread inside a mutator.
RunL(t) ==
  \/ BatchNext(t)
  \/ WriteStep(t)
  \/ ReplaceRoot(t)
  \/ Unmark(t)
  \/ PruneStep(t)
  \/ ClearCaches(t)
  \/ Exit(t)

NextL ==
  \/ \E t \in Threads : Request(t)
  \/ \E t \in Threads : EnterL(t)
  \/ \E t \in Threads : BatchEnter(t, <<>>)
  \/ \E t \in Threads : RunL(t)
  \/ \E t \in Threads : \E ip \in ProbesM : CheckWhole(t, ip)

\* The scheduler lets every thread that can run do so: a thread inside a
\* mutator takes its next step, and a waiting thread enters a guard that
\* stays free.
SpecL ==
  /\ InitM
  /\ [][NextL]_vars
  /\ \A t \in Threads : WF_vars(RunL(t))
  /\ \A t \in Threads : WF_vars(t \in waiting /\ EnterL(t))

\* ========================================================== serialization
\* Mutant: the compact tuple of a node leaves its children out.
to_compact_tuple_childless(t, path) ==
  <<t[path].is_end, t[path].range_start, t[path].range_end, None>>

\* CIDARTHANode.to_compact_tuple: (is_end, start, end, children), children a
\* dict byte -> tuple, or None for a node without children.
RECURSIVE to_compact_tuple(_, _)
to_compact_tuple(t, path) ==
  LET node == t[path]
      children == IF NoChildren(node) THEN None
                  ELSE Some([k \in The(node.children) |-> to_compact_tuple(t, Append(path, k))])
  IN  <<node.is_end, node.range_start, node.range_end, children>>

\* msgpack.packb(obj, use_bin_type=True) of a compact tuple: the tuple is an
\* array, a bool a bool, None nil, bytes a bin, a dict a map.
RECURSIVE PackNode(_)
PackNode(data) ==
  LET opt(o) == IF o = None THEN [tag |-> "nil"] ELSE [tag |-> "bin", val |-> The(o)]
  IN  [tag |-> "array",
       val |-> << [tag |-> "bool", val |-> data[1]],
                  opt(data[2]),
                  opt(data[3]),
                  IF data[4] = None THEN [tag |-> "nil"]
                  ELSE [tag |-> "map",
                        val |-> [k \in DOMAIN The(data[4]) |-> PackNode(The(data[4])[k])]] >>]

packb(flat_data) == [tag |-> "map", val |-> [k \in DOMAIN flat_data |-> PackNode(flat_data[k])]]

\* msgpack.unpackb(data, raw=False, strict_map_key=False): an array is a
\* list, nil None, a bin bytes, a map a dict (integer keys allowed).
RECURSIVE UnpackNode(_)
UnpackNode(w) ==
  LET opt(x) == IF x.tag = "nil" THEN None ELSE Some(x.val)
      items == w.val
  IN  << items[1].val,
         opt(items[2]),
         opt(items[3]),
         IF items[4].tag = "nil" THEN None
         ELSE Some([k \in DOMAIN items[4].val |-> UnpackNode(items[4].val[k])]) >>

unpackb(w) == [k \in DOMAIN w.val |-> UnpackNode(w.val[k])]

\* CIDARTHANode.from_compact_tuple: the node and, for a non-empty children
\* dict, the nodes below it.
RECURSIVE from_compact_tuple(_, _)
RECURSIVE FromChildren(_, _, _, _)
FromChildren(acc, children_dict, keys, path) ==
  IF keys = {} THEN acc
  ELSE LET k == CHOOSE x \in keys : TRUE
       IN  FromChildren(acc @@ from_compact_tuple(children_dict[k], Append(path, k)),
                        children_dict, keys \ {k}, path)

from_compact_tuple(data, path) ==
  LET filled == data[4] # None /\ DOMAIN The(data[4]) # {}
      node == [is_end |-> data[1], range_start |-> data[2], range_end |-> data[3],
               children |-> IF filled THEN Some(DOMAIN The(data[4])) ELSE None]
  IN  IF filled
      THEN FromChildren(path :> node, The(data[4]), DOMAIN The(data[4]), path)
      ELSE path :> node

\* dump(): the packed {'root': compact tuple of the root}.
dump(t) == packb([k \in {"root"} |-> to_compact_tuple(t, <<>>)])

\* load(serialized_data): a new engine whose root is rebuilt from the data.
load(serialized_data) == from_compact_tuple(unpackb(serialized_data)["root"], <<>>)

\* The engine is replaced by load(dump()) of itself: the loaded engine has
\* the rebuilt trie, fresh caches and a fresh guard.
DumpLoad ==
  /\ root' = load(dump(root))
  /\ check_cache' = <<>>
  /\ last' = Did("load", <<>>, FALSE, FALSE, root')
  /\ UNCHANGED <<stored, phase, seq4>>

NextD ==
  \/ Next
  \/ DumpLoad

SpecD == Init /\ [][NextD]_vars

\* ============================================ CIDARTHA4, dump beside mutators
\* Threads call insert, batch_insert, clear and dump on one engine.  dump
\* takes no guard: it walks the trie node by node while a mutator may be
\* between two of its writes.  The prefixes are 10.0.0.0/15, 10.0.0.0/16,
\* 0.0.0.0/0 and a text that does not parse; with them the keys of every
\* children dict go in in ascending order, which is the order a dict hands
\* them out.
CidrsS ==
  { [ip |-> <<10, 0, 0, 0>>, len |-> 15],
    [ip |-> <<10, 0, 0, 0>>, len |-> 16],
    [ip |-> <<0, 0, 0, 0>>, len |-> 0],
    [ip |-> <<10, 0, 0, 0>>, len |-> 33] }

BatchesS ==
  { <<>>,
    << [ip |-> <<10, 0, 0, 0>>, len |-> 16], [ip |-> <<10, 0, 0, 0>>, len |-> 15] >> }

\* The least of a non-empty set of bytes.
MinByte(S) == CHOOSE b \in S : \A c \in S : b <= c

\* A call of to_compact_tuple on the node at path p begins: `if
\* self._children` and, for a filled dict, the iterator over its items, which
\* remembers the size of the dict.  done: the tuples of the children visited.
OpenNode(view, p) ==
  [node |-> p, iter |-> ~NoChildren(view[p]), size |-> Cardinality(ChildBytes(view[p])),
   todo |-> ChildBytes(view[p]), done |-> <<>>]

\* dump(): self.root.to_compact_tuple() is called.
DumpEnter(t) ==
  /\ thr[t].pc = "idle"
  /\ thr' = [thr EXCEPT ![t] = [IdleM EXCEPT !.pc = "dmp", !.op = "dump",
                                            !.stack = <<OpenNode(root, <<>>)>>]]
  /\ UNCHANGED <<root, check_cache, stored, lock, seqC>>

\* dump(), one step of the call of to_compact_tuple that is innermost.  With
\* an iterator: the next item is asked for, which raises RuntimeError if the
\* dict has changed size since the iterator was made, else descends into the
\* next child, else ends the iteration.  At the end the node's is_end,
\* range_start and range_end are read and the tuple goes to the caller; the
\* tuple of the root is packed and returned.
DumpStep(t) ==
  /\ thr[t].pc = "dmp"
  /\ LET view == View(t)
         n == Len(thr[t].stack)
         f == thr[t].stack[n]
         b == MinByte(f.todo)
         data == <<view[f.node].is_end, view[f.node].range_start, view[f.node].range_end,
                   IF f.iter THEN Some(f.done) ELSE None>>
     IN  thr' = [thr EXCEPT ![t] =
                   IF f.iter /\ Cardinality(ChildBytes(view[f.node])) # f.size
                   THEN [IdleM EXCEPT !.op = "dump", !.raised = TRUE]
                   ELSE IF f.iter /\ f.todo # {}
                   THEN [@ EXCEPT !.stack = Append([@ EXCEPT ![n].todo = f.todo \ {b}],
                                                   OpenNode(view, Append(f.node, b)))]
                   ELSE IF n = 1
                   THEN [IdleM EXCEPT !.op = "dump",
                                      !.out = Some(packb([k \in {"root"} |-> data]))]
                   ELSE [@ EXCEPT !.stack =
                           [SubSeq(@, 1, n - 1) EXCEPT
                              ![n - 1].done = @ @@ (f.node[Len(f.node)] :> data)]]]
  /\ UNCHANGED <<root, check_cache, stored, lock, seqC>>

NextS ==
  \/ \E t \in Threads : \E text \in CidrsS : InsertEnter(t, text)
  \/ \E t \in Threads : \E entries \in BatchesS : BatchEnter(t, entries)
  \/ \E t \in Threads : ClearEnter(t)
  \/ \E t \in Threads : BatchNext(t)
  \/ \E t \in Threads : WriteStep(t)
  \/ \E t \in Threads : ReplaceRoot(t)
  \/ \E t \in Threads : ClearCaches(t)
  \/ \E t \in Threads : Exit(t)
  \/ \E t \in Threads : DumpEnter(t)
  \/ \E t \in Threads : DumpStep(t)

SpecS == InitM /\ [][NextS]_vars

\* ================================================ CIDARTHA5 serialization
\* CIDARTHAConfig(): strategy "normalized", cache_size 4096.
DefaultCacheSize == 4096
DefaultConfig5 == [cache_strategy |-> "normalized", cache_size |-> DefaultCacheSize]

\* msgpack.packb of the 'config' dict: a map of a str and an int.
PackConfig(cfg) ==
  [tag |-> "map",
   val |-> [k \in {"cache_strategy", "cache_size"} |->
              IF k = "cache_strategy" THEN [tag |-> "str", val |-> cfg.cache_strategy]
              ELSE [tag |-> "int", val |-> cfg.cache_size]]]

\* CIDARTHA5.dump(): the packed {'root': compact tuple, 'config': {...}}.
dump5(t, cfg) ==
  [tag |-> "map",
   val |-> [k \in {"root", "config"} |->
              IF k = "root" THEN PackNode(to_compact_tuple(t, <<>>)) ELSE PackConfig(cfg)]]

\* Mutant: load ignores the 'config' key.
load5_default_config(serialized_data) ==
  [config |-> DefaultConfig5,
   root |-> from_compact_tuple(UnpackNode(serialized_data.val["root"]), <<>>)]

\* CIDARTHA5.load(serialized_data): the configuration stored under 'config',
\* the default one if the key is missing, and the root rebuilt from 'root'.
load5(serialized_data) ==
  LET flat_data == serialized_data.val
  IN  [config |-> IF "config" \in DOMAIN flat_data
                  THEN [cache_strategy |-> flat_data["config"].val["cache_strategy"].val,
                        cache_size |-> flat_data["config"].val["cache_size"].val]
                  ELSE DefaultConfig5,
       root |-> from_compact_tuple(UnpackNode(flat_data["root"]), <<>>)]

\* The engine is replaced by load(dump()) of itself: the loaded engine has
\* fresh caches.
DumpLoad5 ==
  /\ root' = load5(dump5(root, config)).root
  /\ config' = load5(dump5(root, config)).config
  /\ check_cache' = <<>>
  /\ norm_cache' = <<>>
  /\ last' = Did("load", <<>>, FALSE, FALSE, root')
  /\ UNCHANGED <<stored, phase, lock, thr, globals>>

\* The engine is replaced by the load of data holding its root only, as
\* written before configurations were stored (CIDARTHA4.dump).
LoadLegacy5 ==
  /\ root' = load5(dump(root)).root
  /\ config' = load5(dump(root)).config
  /\ check_cache' = <<>>
  /\ norm_cache' = <<>>
  /\ last' = Did("load_legacy", <<>>, FALSE, FALSE, root')
  /\ UNCHANGED <<stored, phase, lock, thr, globals>>

Next5D ==
  \/ Next5
  \/ DumpLoad5
  \/ LoadLegacy5

Spec5D == Init5 /\ [][Next5D]_vars

\* ======================================================== address forms
\* int(IPv4Address(a)): the big-endian value of the packed bytes.
RECURSIVE BytesToInt(_)
BytesToInt(a) == IF Len(a) = 0 THEN 0 ELSE 256 * BytesToInt(SubSeq(a, 1, Len(a) - 1)) + a[Len(a)]

\* The four presentations of an IPv4 address: dotted text, packed bytes,
\* integer value, IPv4Address object.
Forms(a) ==
  { [kind |-> "str", val |-> a],
    [kind |-> "bytes", val |-> a],
    [kind |-> "int", val |-> BytesToInt(a)],
    [kind |-> "obj", val |-> a] }

\* 0.0.0.10 (whose integer value fits one byte) and 10.5.5.5.
FormAddrs == {<<0, 0, 0, 10>>, <<10, 5, 5, 5>>}

FormProbes == UNION {Forms(a) : a \in FormAddrs}

\* The engine with callers that pass addresses in every form.
NextF ==
  \/ \E text \in Cidrs : Insert(text)
  \/ \E text \in Cidrs : Remove(text)
  \/ Clear
  \/ \E ip \in FormProbes : Check(ip)

SpecF == Init /\ [][NextF]_vars

\* ================================================= CIDARTHA5, address forms
\* A CIDARTHA5 engine with the "normalized" or "dual" strategy whose callers
\* pass each address as text, as packed bytes and as an address object; the
\* capacity holds one or both of the addresses.
FormProbes5 == {f \in FormProbes : f.kind # "int"}

Configs5F == [cache_strategy : {"normalized", "dual"}, cache_size : {CacheCap, CacheCap + 1}]

Init5F ==
  /\ Fresh
  /\ config \in Configs5F

Next5F ==
  \/ \E text \in Cidrs5 : Insert5(text)
  \/ Clear5
  \/ ClearCache5
  \/ \E ip \in FormProbes5 : Check5(ip)

Spec5F == Init5F /\ [][Next5F]_vars

\* ======================================================== batch entries
\* The entries callers put into a batch: a plain text, a text with white
\* space around it, an empty line, a text that does not parse, another plain
\* text.
BatchEntries ==
  { [ip |-> <<10, 0, 0, 0>>, len |-> 8],
    [ip |-> <<10, 0, 0, 0>>, len |-> 12, pad |-> TRUE],
    [ip |-> <<>>, len |-> 0],
    [ip |-> <<10, 0, 0, 0>>, len |-> 33],
    [ip |-> <<10, 10, 0, 0>>, len |-> 16] }

\* Every list of at most MaxEntries of them.
RECURSIVE EntryLists(_)
EntryLists(n) ==
  IF n = 0 THEN {<<>>}
  ELSE EntryLists(n - 1) \cup {Append(s, e) : s \in EntryLists(n - 1), e \in BatchEntries}

BatchesB == EntryLists(MaxEntries)

NextB ==
  \/ \E entries \in BatchesB : BatchInsert(entries)
  \/ \E text \in Cidrs : Remove(text)
  \/ Clear
  \/ \E ip \in Probes : Check(ip)

SpecB == Init /\ [][NextB]_vars

\* ======================================================= rejected inputs
\* check is also handed what the normalizer rejects: the text '256.1.1.1',
\* a float (a kind _ip_to_bytes does not handle) and the list [10, 5, 5, 5].
BadInputs ==
  { [kind |-> "str", val |-> <<256, 1, 1, 1>>],
    [kind |-> "float", val |-> <<>>],
    [kind |-> "list", val |-> <<10, 5, 5, 5>>] }

NextX ==
  \/ \E text \in Cidrs : Insert(text)
  \/ \E text \in Cidrs : Remove(text)
  \/ Clear
  \/ \E ip \in Probes \cup BadInputs : Check(ip)

SpecX == Init /\ [][NextX]_vars


\* ============================================ CIDARTHA5, engines side by side
\* Four CIDARTHA5 engines, one per strategy, each with a cache of CacheCap
\* entries, are handed the same calls.  Here `engines` holds the four: an
\* engine is its configuration, trie and two caches, with the answer of its
\* latest call (ret, raised).
Engine5(cfg) ==
  [config |-> cfg, root |-> EmptyTrie, check_cache |-> <<>>, norm_cache |-> <<>>,
   ret |-> FALSE, raised |-> FALSE]

StrategyOrder == <<"none", "simple", "normalized", "dual">>

\* insert, remove and clear of one engine: the trie changes, no cache does.
insert5(e, text) ==
  IF ~ValidCidr(text) THEN [e EXCEPT !.raised = TRUE, !.ret = FALSE]
  ELSE [e EXCEPT !.root = insert_cidr5(@, ip_network(text)), !.raised = FALSE, !.ret = FALSE]

remove5e(e, text) ==
  IF ~ValidCidr(text) THEN [e EXCEPT !.raised = TRUE, !.ret = FALSE]
  ELSE [e EXCEPT !.root = remove5(@, ip_network(text)), !.raised = FALSE, !.ret = FALSE]

clear5(e) == [e EXCEPT !.root = EmptyTrie, !.raised = FALSE, !.ret = FALSE]

\* check(ip) of one engine (as Check5, on the engine e).
check5(e, ip) ==
  LET strategy == e.config.cache_strategy
      caching == strategy # "none" /\ e.config.cache_size > 0
      raise == [e EXCEPT !.raised = TRUE, !.ret = FALSE]
  IN  IF ~caching
      THEN IF ValidIp(ip)
           THEN [e EXCEPT !.raised = FALSE, !.ret = check_bytes_impl(e.root, ip_to_bytes(ip))]
           ELSE raise
      ELSE IF strategy = "simple" /\ ip \in CacheKeys(e.check_cache)
      THEN [e EXCEPT !.check_cache = CacheTouch(@, ip), !.raised = FALSE,
                     !.ret = CacheGet(e.check_cache, ip)]
      ELSE IF ~ValidIp(ip) /\ ~(strategy = "dual" /\ ip \in CacheKeys(e.norm_cache))
      THEN raise
      ELSE LET ip_bytes == IF strategy = "dual" /\ ip \in CacheKeys(e.norm_cache)
                           THEN CacheGet(e.norm_cache, ip)
                           ELSE ip_to_bytes(ip)
               key == IF strategy = "simple" THEN ip ELSE AsBytes(ip_bytes)
               hit == key \in CacheKeys(e.check_cache)
               ret == IF hit THEN CacheGet(e.check_cache, key)
                      ELSE check_bytes_impl(e.root, ip_bytes)
           IN  [e EXCEPT !.norm_cache = IF strategy # "dual" THEN @
                                        ELSE IF ip \in CacheKeys(@) THEN CacheTouch(@, ip)
                                        ELSE CachePut(@, ip, ip_bytes, e.config.cache_size),
                         !.check_cache = IF hit THEN CacheTouch(@, key)
                                         ELSE CachePut(@, key, ret, e.config.cache_size),
                         !.raised = FALSE,
                         !.ret = ret]

Init5L ==
  /\ root = EmptyTrie
  /\ check_cache = <<>>
  /\ norm_cache = <<>>
  /\ stored = {}
  /\ phase = "ins"
  /\ last = NoOp
  /\ lock = Free
  /\ thr = [t \in Threads |-> Idle]
  /\ config = [cache_strategy |-> "none", cache_size |-> CacheCap]
  /\ default_config = None
  /\ last_set = None
  /\ waiting = {}
  /\ bytes_cache = <<>>
  /\ engines = [i \in 1..Len(StrategyOrder) |->
                  Engine5([cache_strategy |-> StrategyOrder[i], cache_size |-> CacheCap])]

\* What a call on the four engines leaves alone.
seq5L == <<root, check_cache, norm_cache, stored, phase, lock, thr, config,
           default_config, last_set, waiting, bytes_cache>>

InsertAll(text) ==
  /\ engines' = [i \in DOMAIN engines |-> insert5(engines[i], text)]
  /\ last' = [NoOp EXCEPT !.op = "insert", !.arg = text]
  /\ UNCHANGED seq5L

RemoveAll(text) ==
  /\ engines' = [i \in DOMAIN engines |-> remove5e(engines[i], text)]
  /\ last' = [NoOp EXCEPT !.op = "remove", !.arg = text]
  /\ UNCHANGED seq5L

ClearAll ==
  /\ engines' = [i \in DOMAIN engines |-> clear5(engines[i])]
  /\ last' = [NoOp EXCEPT !.op = "clear"]
  /\ UNCHANGED seq5L

CheckAll(ip) ==
  /\ engines' = [i \in DOMAIN engines |-> check5(engines[i], ip)]
  /\ last' = [NoOp EXCEPT !.op = "check", !.arg = ip]
  /\ UNCHANGED seq5L

Next5L ==
  \/ \E text \in Cidrs5 : InsertAll(text)
  \/ \E text \in Cidrs5 : RemoveAll(text)
  \/ ClearAll
  \/ \E ip \in Probes : CheckAll(ip)

Spec5L == Init5L /\ [][Next5L]_vars

\* ====================================================== partial prefixes
\* Prefixes whose length is no multiple of 8, at each depth and of each
\* width, written with host bits set, and full-byte prefixes above and at
\* the nodes they expand into: 128.0.0.0/1, 10.0.0.0/7, 10.200.0.0/9,
\* 10.10.0.0/12, 10.10.3.0/23, 10.0.0.0/8, 10.10.0.0/16 and
\* 2001:db8:8000::/33.
CidrsP ==
  { [ip |-> <<128, 0, 0, 0>>, len |-> 1],
    [ip |-> <<10, 0, 0, 0>>, len |-> 7],
    [ip |-> <<10, 200, 0, 0>>, len |-> 9],
    [ip |-> <<10, 10, 0, 0>>, len |-> 12],
    [ip |-> <<10, 10, 3, 0>>, len |-> 23],
    [ip |-> <<10, 0, 0, 0>>, len |-> 8],
    [ip |-> <<10, 10, 0, 0>>, len |-> 16],
    [ip |-> <<32, 1, 13, 184, 128>> \o Zeros(11), len |-> 33] }

NextP ==
  \/ \E text \in CidrsP : Insert(text)
  \/ Clear

SpecP == Init /\ [][NextP]_vars

\* ==================================================== whole-byte prefixes
\* IPv4 prefixes whose lengths are non-zero multiples of 8, nested and side
\* by side: 10.0.0.0/8, 10.10.0.0/16, 10.10.10.0/24, 10.10.10.10/32,
\* 10.20.0.0/16 and 11.0.0.0/8.
CidrsW ==
  { [ip |-> <<10, 0, 0, 0>>, len |-> 8],
    [ip |-> <<10, 10, 0, 0>>, len |-> 16],
    [ip |-> <<10, 10, 10, 0>>, len |-> 24],
    [ip |-> <<10, 10, 10, 10>>, len |-> 32],
    [ip |-> <<10, 20, 0, 0>>, len |-> 16],
    [ip |-> <<11, 0, 0, 0>>, len |-> 8] }

\* The addresses checked: 10.10.10.10, 10.10.10.9, 10.10.5.5, 10.20.0.1,
\* 10.5.5.5, 11.1.1.1, 12.0.0.0 and the IPv6 address a00::1.
AddressesW ==
  { <<10, 10, 10, 10>>, <<10, 10, 10, 9>>, <<10, 10, 5, 5>>, <<10, 20, 0, 1>>,
    <<10, 5, 5, 5>>, <<11, 1, 1, 1>>, <<12, 0, 0, 0>>,
    <<10, 0>> \o Zeros(13) \o <<1>> }

ProbesW == {[kind |-> "str", val |-> a] : a \in AddressesW}

NextW ==
  \/ \E text \in CidrsW : Insert(text)
  \/ \E text \in CidrsW : Remove(text)
  \/ \E ip \in ProbesW : Check(ip)

SpecW == Init /\ [][NextW]_vars

\* ====================================================== inserts and removes
\* The engine under insert and remove alone, over the pool's texts.
NextIR ==
  \/ \E text \in Cidrs : Insert(text)
  \/ \E text \in Cidrs : Remove(text)

SpecIR == Init /\ [][NextIR]_vars

\* ========================================================== configuration

\* config.py: CIDARTHAConfig() with every field at its default.  Of the
\* fields, the engine's check cache reads check_cache_size.
DefaultCheckCacheSize == 4096

CIDARTHAConfig == [check_cache_size |-> DefaultCheckCacheSize]

\* The configurations callers build: CIDARTHAConfig(check_cache_size = n),
\* n >= 0 (__post_init__ rejects a negative size).
ConfigsK == {[check_cache_size |-> n] : n \in {0, CacheCap, 2 * DefaultCheckCacheSize}}
              \cup {CIDARTHAConfig}

\* set_default_config(cfg).
set_default_config(cfg) ==
  /\ default_config' = Some(cfg)
  /\ last_set' = Some(cfg)
  /\ UNCHANGED <<root, check_cache, stored, phase, last, config, norm_cache,
                 lock, thr, engines, waiting, bytes_cache>>

get_default_config_fresh(d) == Some(CIDARTHAConfig)

\* get_default_config(): the global after the call; a missing default is
\* created and kept.
get_default_config(d) == IF d = None THEN Some(CIDARTHAConfig) ELSE d

\* CIDARTHA(config = arg), arg None or a configuration: __init__ and
\* _setup_caches.  maxsize is the capacity of the engine's check cache; arg
\* (history) is what the caller passed.
Construct(arg) ==
  /\ Len(engines) < MaxEngines
  /\ LET d == IF arg = None THEN get_default_config(default_config)
                            ELSE default_config
         cfg == IF arg = None THEN The(d) ELSE The(arg)
     IN  /\ default_config' = d
         /\ engines' = Append(engines, [config |-> cfg,
                                        maxsize |-> cfg.check_cache_size,
                                        arg |-> arg])
  /\ UNCHANGED <<root, check_cache, stored, phase, last, config, norm_cache,
                 lock, thr, last_set, waiting, bytes_cache>>

NextK ==
  \/ \E cfg \in ConfigsK : set_default_config(cfg)
  \/ \E arg \in {None} \cup {Some(c) : c \in ConfigsK} : Construct(arg)

SpecK == Init /\ [][NextK]_vars

\* ================================================== CIDARTHA4, two engines
\* Two engines constructed in one process, engines[1] and engines[2], called
\* one at a time.  Each has its own root and its own lru_cache around
\* _check_impl; the lru_cache _ip_to_bytes_cached is a module global that the
\* checks of both fill and the mutators of both clear.
IpBytesCacheSize == 8192

CidrsE ==
  { [ip |-> <<10, 0, 0, 0>>, len |-> 8],
    [ip |-> <<0, 0, 0, 0>>, len |-> 0],
    [ip |-> <<10, 0, 0, 0>>, len |-> 33] }

BatchesE == {<<>>, << [ip |-> <<10, 0, 0, 0>>, len |-> 8] >>}

\* The texts handed to check: 10.5.5.5, 11.0.0.1 and 10.5.5.256, which
\* inet_pton rejects.
ProbesE ==
  { [kind |-> "str", val |-> <<10, 5, 5, 5>>],
    [kind |-> "str", val |-> <<11, 0, 0, 1>>],
    [kind |-> "str", val |-> <<10, 5, 5, 256>>] }

\* CIDARTHA(): __init__ and _setup_caches.
Engine4 == [root |-> EmptyTrie, check_cache |-> <<>>, maxsize |-> CacheCap]

\* History of the last call: the engine it was made on and, for a mutator,
\* the texts its clear dropped from the shared cache.
NoOpE == [op |-> "none", engine |-> 0, raised |-> FALSE, ret |-> FALSE, dropped |-> {}]

Init2E ==
  /\ root = EmptyTrie
  /\ check_cache = <<>>
  /\ norm_cache = <<>>
  /\ stored = {}
  /\ phase = "ins"
  /\ last = NoOpE
  /\ lock = Free
  /\ thr = [t \in Threads |-> Idle]
  /\ config = [check_cache_size |-> CacheCap]
  /\ default_config = None
  /\ last_set = None
  /\ waiting = {}
  /\ engines = <<Engine4, Engine4>>
  /\ bytes_cache = <<>>

\* What a call on one of the two engines leaves alone.
seq2E == <<root, check_cache, norm_cache, stored, phase, lock, thr, config,
           default_config, last_set, waiting>>

\* _ip_to_bytes(ip): a text goes through _ip_to_bytes_cached, which keeps the
\* bytes of each text inet_pton accepted (an exception is not kept); any
\* other argument is converted on the spot.
ip_to_bytes_shared(cache, ip) ==
  IF ip.kind # "str"
  THEN [raised |-> ~ValidIp(ip), bytes |-> IF ValidIp(ip) THEN ip_to_bytes(ip) ELSE <<>>,
        cache |-> cache]
  ELSE IF ip \in CacheKeys(cache)
  THEN [raised |-> FALSE, bytes |-> CacheGet(cache, ip), cache |-> CacheTouch(cache, ip)]
  ELSE IF ~ValidIp(ip)
  THEN [raised |-> TRUE, bytes |-> <<>>, cache |-> cache]
  ELSE [raised |-> FALSE, bytes |-> ip_to_bytes(ip),
        cache |-> CachePut(cache, ip, ip_to_bytes(ip), IpBytesCacheSize)]

\* Mutant: one lru_cache around _check_impl for the whole process.
store_check_shared(es, e, ip, ret) ==
  [j \in DOMAIN es |-> [es[j] EXCEPT !.check_cache = CachePut(@, ip, ret, es[j].maxsize)]]

\* self.check = lru_cache(maxsize)(self._check_impl), made in _setup_caches
\* for each engine: the answer goes into the cache of the engine called.
store_check(es, e, ip, ret) ==
  [es EXCEPT ![e].check_cache = CachePut(@, ip, ret, es[e].maxsize)]

\* check(ip) on engine e: the engines and the shared cache after the call,
\* whether it raised, and its answer.
check4(es, cache, e, ip) ==
  IF es[e].maxsize > 0 /\ ip \in CacheKeys(es[e].check_cache)
  THEN [es |-> [es EXCEPT ![e].check_cache = CacheTouch(@, ip)], cache |-> cache,
        raised |-> FALSE, ret |-> CacheGet(es[e].check_cache, ip)]
  ELSE LET b == ip_to_bytes_shared(cache, ip)
           ret == check_bytes_impl(es[e].root, b.bytes)
       IN  IF b.raised
           THEN [es |-> es, cache |-> cache, raised |-> TRUE, ret |-> FALSE]
           ELSE [es |-> store_check(es, e, ip, ret), cache |-> b.cache,
                 raised |-> FALSE, ret |-> ret]

\* The mutator `op` of engine e changed its trie to t and ran its two cache
\* clears: self.check.cache_clear() and _ip_to_bytes_cached.cache_clear().
MutatedOn(e, op, t) ==
  /\ engines' = [engines EXCEPT ![e].root = t, ![e].check_cache = <<>>]
  /\ bytes_cache' = <<>>
  /\ last' = [NoOpE EXCEPT !.op = op, !.engine = e, !.dropped = CacheKeys(bytes_cache)]

\* The call `op` of engine e returned or raised before it changed anything.
UntouchedOn(e, op, raised) ==
  /\ last' = [NoOpE EXCEPT !.op = op, !.engine = e, !.raised = raised]
  /\ UNCHANGED <<engines, bytes_cache>>

\* insert(input_data) on engine e.
InsertOn(e, text) ==
  /\ UNCHANGED seq2E
  /\ IF ~ValidCidr(text) THEN UntouchedOn(e, "insert", TRUE)
     ELSE MutatedOn(e, "insert", insert_cidr4(engines[e].root, ip_network(text)))

\* remove(cidr) on engine e.
RemoveOn(e, text) ==
  /\ UNCHANGED seq2E
  /\ IF ~ValidCidr(text) THEN UntouchedOn(e, "remove", TRUE)
     ELSE LET r == remove4(engines[e].root, ip_network(text))
          IN  IF r.cleared THEN MutatedOn(e, "remove", r.root)
              ELSE UntouchedOn(e, "remove", FALSE)

\* clear() on engine e.
ClearOn(e) ==
  /\ UNCHANGED seq2E
  /\ MutatedOn(e, "clear", EmptyTrie)

\* batch_insert(entries) on engine e.
BatchInsertOn(e, entries) ==
  /\ UNCHANGED seq2E
  /\ IF Len(entries) = 0 THEN UntouchedOn(e, "batch_insert", FALSE)
     ELSE MutatedOn(e, "batch_insert", BatchLoop(engines[e].root, entries, 1))

\* check(ip) on engine e.
CheckOn(e, ip) ==
  /\ UNCHANGED seq2E
  /\ LET r == check4(engines, bytes_cache, e, ip)
     IN  /\ engines' = r.es
         /\ bytes_cache' = r.cache
         /\ last' = [NoOpE EXCEPT !.op = "check", !.engine = e, !.raised = r.raised,
                                  !.ret = r.ret]

Next2E ==
  \/ \E e \in 1..2 : \E text \in CidrsE : InsertOn(e, text)
  \/ \E e \in 1..2 : \E text \in CidrsE : RemoveOn(e, text)
  \/ \E e \in 1..2 : ClearOn(e)
  \/ \E e \in 1..2 : \E entries \in BatchesE : BatchInsertOn(e, entries)
  \/ \E e \in 1..2 : \E ip \in ProbesE : CheckOn(e, ip)

Spec2E == Init2E /\ [][Next2E]_vars

\* ================================================================ claims
Partial(network) == network.prefixlen % 8 # 0

OneFamily(nets, L) == \A n \in nets : Len(n.network_address) = L

\* C1: starting from an empty trie, after inserts only (prefixes of one
\* address family, any prefix length), check(a) for an address a of that
\* family is true iff a lies in the range of some inserted prefix.
C1_InsertOnlyCheckIffCovered ==
  phase \in {"ins", "insdup"} =>
    \A L \in {V4Len, V6Len} :
      OneFamily(stored, L) =>
        \A ip \in Inputs :
          (ValidIp(ip) /\ Len(ip_to_bytes(ip)) = L) =>
            (CheckNow(ip) <=> Covered(ip_to_bytes(ip), stored))

C1_Witness ==
  /\ phase \in {"ins", "insdup"}
  /\ OneFamily(stored, V4Len)
  /\ \E n \in stored : Partial(n)
  /\ \E n \in stored : ~Partial(n) /\ n.prefixlen > 0
  /\ last.op = "check" /\ last.ret
  /\ \E ip \in Inputs : ~CheckNow(ip)

\* C2: remove(p) never turns check(a) from true to false for an address a
\* covered by another prefix q # p that is inserted and not removed.
C2_RemoveKeepsOtherCoverage ==
  [][(last'.op = "remove" /\ ~last'.raised) =>
       \A ip \in Inputs :
         (/\ ValidIp(ip)
          /\ CheckNow(ip)
          /\ Covered(ip_to_bytes(ip), stored \ {ip_network(last'.arg)}))
         => CheckNow(ip)']_vars

\* C3: after remove(p) of an inserted p, check(a) is false for every address
\* a in the range of p that no other stored prefix covers.
C3_RemoveUncovers ==
  [][(last'.op = "remove" /\ ~last'.raised /\ ip_network(last'.arg) \in stored) =>
       \A ip \in Inputs :
         (/\ ValidIp(ip)
          /\ InRange(ip_to_bytes(ip), ip_network(last'.arg))
          /\ ~Covered(ip_to_bytes(ip), stored'))
         => ~CheckNow(ip)']_vars

\* C4: after inserts of distinct prefixes followed by one remove of each of
\* them, the trie is empty again: a non-terminal root without children.
C4_SymmetricRemovesEmptyTrie ==
  (phase = "rem" /\ stored = {}) => root = EmptyTrie

\* C5: remove(p) of a prefix that is not stored is a no-op: the trie and
\* every check answer are as before.
C5_RemoveAbsentNoOp ==
  [][(last'.op = "remove" /\ ~last'.raised /\ ip_network(last'.arg) \notin stored) =>
       /\ root' = root
       /\ \A ip \in Inputs : ValidIp(ip) => (CheckNow(ip)' <=> CheckNow(ip))]_vars

\* C6: inserting the same prefix twice is the same as inserting it once: the
\* second insert leaves the nodes, flags, metadata and check answers alone.
C6_InsertIdempotent ==
  [][(/\ last.op = "insert" /\ ~last.raised
      /\ last'.op = "insert" /\ last'.arg = last.arg) =>
       /\ root' = root
       /\ \A ip \in Inputs : ValidIp(ip) => (CheckNow(ip)' <=> CheckNow(ip))]_vars

C6_Witness ==
  /\ last.op = "insert" /\ last.twice /\ ~last.raised
  /\ Partial(ip_network(last.arg))
  /\ Cardinality(stored) >= 3
  /\ Cardinality(DOMAIN root) > 17

\* C7: with threads running insert and check concurrently (disjoint prefix
\* families, no remove or clear), a check of a that started after an insert
\* of a prefix covering a had returned answers true and does not raise.
C7_CompletedInsertVisible ==
  \A t \in Threads :
    (thr[t].pc = "idle" /\ thr[t].must) => (thr[t].answered /\ thr[t].ret /\ ~thr[t].raised)

\* C8: with operations run one at a time, a mutation that changes the trie
\* empties the check cache, every cached answer is the matcher's answer on
\* the current trie, and so is every answer check returns.
C8_CacheCoherent ==
  /\ \A k \in CacheKeys(check_cache) : CacheGet(check_cache, k) = check_impl(root, k)
  /\ (last.op = "check" /\ ~last.raised) => last.ret = check_impl(root, last.arg)
  /\ (last.op \in {"insert", "remove", "clear", "batch_insert"} /\ last.stale # {})
       => check_cache = <<>>

C9_MutationInvalidatesLookupCache ==
  Caching5 =>
    /\ last.op = "clear" => check_cache = <<>>
    /\ (last.op = "check" /\ ~last.raised)
         => last.ret = check_bytes_impl(root, ip_to_bytes(last.arg))

\* C10: in CIDARTHA5, after insert of one prefix whose length is not a
\* multiple of 8 into an empty trie, check is true for every address in the
\* prefix's range and false for every address outside it.
C10_PartialPrefixInsert5 ==
  (/\ phase = "ins"
   /\ Cardinality(stored) = 1
   /\ \A n \in stored : Partial(n))
  => \A ip \in Inputs :
       ValidIp(ip) => (CheckNow5(ip) <=> Covered(ip_to_bytes(ip), stored))

\* C11: an insert of a /0 prefix makes the root terminal and check true for
\* every address, and a terminal root with all-true answers survives every
\* operation other than clear and the remove of a /0 prefix.
C11_WildcardPersists ==
  [][(\/ /\ last'.op = "insert" /\ ~last'.raised
         /\ ip_network(last'.arg).prefixlen = 0
      \/ /\ root[<<>>].is_end
         /\ last'.op # "clear"
         /\ ~(/\ last'.op = "remove" /\ ~last'.raised
              /\ ip_network(last'.arg).prefixlen = 0))
     => /\ root'[<<>>].is_end
        /\ \A ip \in Inputs : ValidIp(ip) => CheckNow(ip)']_vars

C11_Witness ==
  /\ root[<<>>].is_end
  /\ last.op = "remove" /\ ~last.raised
  /\ ip_network(last.arg) \in Networks \ stored
  /\ ip_network(last.arg).prefixlen # 0
  /\ Cardinality(stored) >= 2
  /\ \E ip \in Inputs : ValidIp(ip) /\ ~Covered(ip_to_bytes(ip), {n \in stored : n.prefixlen # 0})

\* C12: load(dump(T)) has the nodes, child bytes, terminal flags and range
\* metadata of T, and answers every check as T does.
C12_DumpLoadRoundTrip ==
  [][last'.op = "load" =>
       /\ DOMAIN root' = DOMAIN root
       /\ \A q \in DOMAIN root :
            /\ root'[q].is_end = root[q].is_end
            /\ root'[q].range_start = root[q].range_start
            /\ root'[q].range_end = root[q].range_end
            /\ ChildBytes(root'[q]) = ChildBytes(root[q])
       /\ \A ip \in Inputs : ValidIp(ip) => (CheckNow(ip)' <=> CheckNow(ip))]_vars

C12_Witness ==
  /\ last.op = "load"
  /\ phase = "mixed"
  /\ Cardinality(DOMAIN root) > 17
  /\ \E n \in stored : Len(n.network_address) = V6Len
  /\ \E q \in DOMAIN root : q # <<>> /\ root[q].is_end /\ root[q].children # None

\* C13: check answers alike for the four presentations of one IPv4 address,
\* whatever is stored.
C13_FormIndependent ==
  \A a \in FormAddrs : \A f, g \in Forms(a) : CheckNow(f) <=> CheckNow(g)

\* C14: when every stored prefix has a non-zero length and belongs to one
\* family, check is false for every address of the other family (an IPv4
\* query against IPv6 prefixes only, and the reverse).  The inputs include
\* the IPv4 addresses spelled by the leading bytes of the IPv6 prefixes.
C14_OtherFamilyFalse ==
  LET leading == {AsBytes(SubSeq(n.network_address, 1, V4Len)) :
                    n \in {x \in Networks : Len(x.network_address) = V6Len}}
  IN  \A L \in {V4Len, V6Len} :
        (/\ phase \in {"ins", "insdup"}
         /\ OneFamily(stored, L)
         /\ \A n \in stored : n.prefixlen # 0)
        => \A ip \in Inputs \cup leading :
             (ValidIp(ip) /\ Len(ip_to_bytes(ip)) \in {V4Len, V6Len} \ {L}) => ~CheckNow(ip)

\* C15: a thread inside insert, remove, clear or batch_insert (from before
\* its first trie access to after its cache clear) holds the guard, so at
\* most one thread is inside a mutator; every trie write and cache clear is
\* made by the guard's holder; and a mutator leaves the trie it would leave
\* when run alone from the trie it found.
C15_GuardHeld ==
  \A t \in Threads : Mutating(t) => (lock.owner = t /\ \A u \in Threads \ {t} : ~Mutating(u))

C15_MutatorsExclusive ==
  /\ []C15_GuardHeld
  /\ [][(root' # root \/ (check_cache # <<>> /\ check_cache' = <<>>))
          => \E t \in Threads : Mutating(t) /\ lock.owner = t /\ lock'.owner = t
                                /\ thr'[t] # thr[t]]_vars
  /\ [][\A t \in Threads :
          (thr[t].pc = "exit" /\ thr'[t].pc = "idle") => root = The(thr[t].post)]_vars

C15_Witness ==
  \E t \in Threads :
    /\ thr[t].op = "batch_insert" /\ thr[t].pc = "walk" /\ thr[t].k = 3
    /\ root # The(thr[t].pre)
    /\ lock.owner = t
    /\ \E u \in Threads \ {t} : thr[u].op = "check" /\ thr[u].ret
    /\ \E n \in stored : n.prefixlen = 16

\* C16: the terminal flags and children a check reads while a mutator runs
\* are all those of the trie before the mutator, or all those of the trie
\* after it.
C16_NoTornRead ==
  \A t \in Threads : thr[t].cand # {}

\* C17: batch_insert(entries) raises nothing and leaves the trie that insert
\* leaves when called, in order, on every entry that is not empty after
\* trimming and parses; the other entries change nothing.
Kept(entries) == SelectSeq(entries, LAMBDA e : ~Blank(strip(e)) /\ ValidCidr(strip(e)))

RECURSIVE InsertEach(_, _, _)
InsertEach(t, texts, k) ==
  IF k > Len(texts) THEN t
  ELSE InsertEach(insert_cidr4(t, ip_network(strip(texts[k]))), texts, k + 1)

C17_BatchIsInsertOfValidEntries ==
  [][last'.op = "batch_insert" =>
       /\ ~last'.raised
       /\ root' = InsertEach(root, Kept(last'.arg), 1)]_vars

C17_Witness ==
  /\ last.op = "batch_insert" /\ Len(last.arg) = 2
  /\ ~Blank(last.arg[1]) /\ ~ValidCidr(strip(last.arg[1]))
  /\ Padded(last.arg[2])
  /\ ip_network(strip(last.arg[2])) \in stored
  /\ <<10, 15>> \in DOMAIN root /\ root[<<10, 15>>].is_end
  /\ phase = "mixed"

\* C18: a thread inside batch_insert holds the guard from its first entry to
\* after its cache clear; between two entries the trie holds exactly the
\* entries handled so far on top of the trie the batch found, so no insert,
\* remove or clear of another thread took effect; and the batch clears the
\* check cache once, after the last entry is in and before the guard is
\* released.
InBatch(t) == thr[t].op = "batch_insert" /\ thr[t].pc # "idle"

C18_BatchHoldsGuard ==
  \A t \in Threads :
    InBatch(t) =>
      /\ lock.owner = t
      /\ thr[t].pc = "bat_next"
           => root = BatchLoop(The(thr[t].pre), SubSeq(thr[t].entries, 1, thr[t].k - 1), 1)
      /\ thr[t].clears = IF thr[t].pc = "exit" THEN 1 ELSE 0

C18_BatchClearsOnce ==
  /\ []C18_BatchHoldsGuard
  /\ [][\A t \in Threads :
          InBatch(t) =>
            /\ \A u \in Threads \ {t} : root' # root => thr'[u] = thr[u]
            /\ thr'[t].clears > thr[t].clears
                 => /\ thr[t].k > Len(thr[t].entries)
                    /\ root = The(thr[t].post)
                    /\ check_cache' = <<>>
                    /\ lock.owner = t /\ lock'.owner = t
            /\ lock'.owner # t => (thr[t].clears = 1 /\ root = The(thr[t].post))]_vars

C18_Witness ==
  \E t \in Threads :
    /\ InBatch(t) /\ thr[t].pc = "exit" /\ thr[t].clears = 1
    /\ Len(thr[t].entries) = 3
    /\ The(thr[t].pre) # EmptyTrie
    /\ root # The(thr[t].pre)
    /\ check_cache # <<>>

\* C19: insert or remove of a text that does not parse raises to the caller;
\* no step of the call changes the trie or the check cache; and the call
\* leaves the guard free, so that the guard is only ever held by a thread
\* inside a mutator and the other calls go on.
Raising(th) == th.raised /\ th.op \in {"insert", "remove"}

C19_GuardOnlyInsideMutator ==
  /\ lock.owner # 0 => Mutating(lock.owner)
  /\ \A t \in Threads :
       (Raising(thr[t]) /\ thr[t].pc # "idle")
         => (thr[t].pc = "exit" /\ lock.owner = t /\ root = The(thr[t].pre))

C19_InvalidTextRaisesCleanly ==
  /\ []C19_GuardOnlyInsideMutator
  /\ [][\A t \in Threads :
          /\ (thr[t].pc = "idle" /\ Raising(thr'[t]))
               => (root' = root /\ check_cache' = check_cache /\ stored' = stored)
          /\ (Raising(thr[t]) /\ thr'[t].pc = "idle")
               => /\ thr'[t].raised
                  /\ root' = root /\ check_cache' = check_cache /\ stored' = stored
                  /\ lock' = Free]_vars
  /\ [][\A t \in Threads : \A text \in CidrsM :
          ((InsertEnter(t, text) \/ RemoveEnter(t, text)) /\ ~ValidCidr(text))
            => Raising(thr'[t])]_vars

C19_Witness ==
  \E t \in Threads : \E u \in Threads \ {t} :
    /\ thr[t].pc = "idle" /\ thr[t].op = "none" /\ thr[t].raised
    /\ check_cache # <<>>
    /\ lock.owner = u
    /\ thr[u].pc = "walk" /\ thr[u].op = "insert"
    /\ root # The(thr[u].pre)

\* C20: check of a text that is neither an IPv4 nor an IPv6 address, or of
\* an input of a kind the normalizer does not handle, raises ValueError,
\* changes neither the trie nor the check cache, and leaves the answer of
\* every valid address as it was.
C20_RejectedInputRaisesValueError ==
  [][(last'.op = "check" /\ last'.arg \in BadInputs) =>
       /\ last'.raised
       /\ check_raises(last'.arg) = "ValueError"
       /\ root' = root
       /\ check_cache' = check_cache
       /\ \A ip \in Inputs : ValidIp(ip) => (CheckNow(ip)' <=> CheckNow(ip))]_vars

\* C21: clear() leaves a fresh root (non-terminal, no children, no other
\* node) and check false for every address, whatever was stored or cached
\* before; the check that follows a clear returns false.
C21_ClearEmpties ==
  /\ [][last'.op = "clear" =>
          /\ DOMAIN root' = {<<>>}
          /\ ~root'[<<>>].is_end /\ NoChildren(root'[<<>>])
          /\ \A ip \in Inputs : ValidIp(ip) => ~CheckNow(ip)']_vars
  /\ [][(last.op = "clear" /\ last'.op = "check" /\ ~last'.raised) => ~last'.ret]_vars

C21_Witness ==
  /\ last.op = "check" /\ ~last.raised /\ ~last.ret
  /\ last.stale = {last.arg}
  /\ root = EmptyTrie /\ phase = "ins"

\* C22: under "normalized" and "dual" the lookup cache is keyed on the
\* canonical bytes: a check of an address whose bytes are a key is a hit
\* (no entry is added, the cached answer is returned) in whatever form the
\* address is passed; a check of any other address adds the one entry for
\* its bytes; so the cache holds one entry per distinct address checked,
\* up to the capacity.
C22_KeysCanonical ==
  /\ \A i \in 1..Len(check_cache) : check_cache[i][1].kind = "bytes"
  /\ \A i, j \in 1..Len(check_cache) : check_cache[i][1] = check_cache[j][1] => i = j
  /\ Len(check_cache) <= config.cache_size

C22_OneEntryPerAddress ==
  /\ []C22_KeysCanonical
  /\ [][(last'.op = "check" /\ ~last'.raised) =>
          LET key == AsBytes(ip_to_bytes(last'.arg))
          IN  IF key \in CacheKeys(check_cache)
              THEN /\ CacheKeys(check_cache') = CacheKeys(check_cache)
                   /\ Len(check_cache') = Len(check_cache)
                   /\ last'.ret = CacheGet(check_cache, key)
              ELSE /\ key \in CacheKeys(check_cache')
                   /\ Len(check_cache) < config.cache_size
                        => /\ CacheKeys(check_cache') = CacheKeys(check_cache) \cup {key}
                           /\ Len(check_cache') = Len(check_cache) + 1]_vars

C22_Witness ==
  /\ config.cache_strategy = "dual"
  /\ last.op = "check" /\ last.arg.kind = "obj" /\ last.ret
  /\ \E a \in FormAddrs :
       /\ CacheKeys(norm_cache) = {[kind |-> "str", val |-> a], [kind |-> "obj", val |-> a]}
       /\ CacheKeys(check_cache) = {AsBytes(a)}
  /\ Len(check_cache) = 1

\* C23: in CIDARTHA5 neither cache ever holds more entries than the
\* configured capacity, under every strategy; with capacity 0 nothing is
\* ever cached and check returns the matcher's answer on the current trie.
C23_CacheBounded ==
  /\ Len(check_cache) <= config.cache_size
  /\ Len(norm_cache) <= config.cache_size
  /\ config.cache_size = 0 =>
       /\ check_cache = <<>> /\ norm_cache = <<>>
       /\ (last.op = "check" /\ ~last.raised)
            => last.ret = check_bytes_impl(root, ip_to_bytes(last.arg))

C23_Witness ==
  /\ config.cache_strategy = "dual" /\ config.cache_size = CacheCap
  /\ Len(check_cache) = CacheCap /\ Len(norm_cache) = CacheCap
  /\ last.op = "check" /\ last.ret
  /\ last.arg \in CacheKeys(norm_cache)
  /\ \E ip \in Probes : ip # last.arg /\ ValidIp(ip) /\ LookupKey(ip) \notin CacheKeys(check_cache)
                          /\ check_bytes_impl(root, ip_to_bytes(ip))

\* C24: in CIDARTHA5, load(dump()) gives an engine with the same
\* cache_strategy and cache_size (and the same trie), for every
\* configuration; loading data with a 'root' key and no 'config' key gives
\* the default configuration, strategy "normalized" and cache size 4096.
C24_ConfigRoundTrip ==
  /\ [][last'.op = "load" => (config' = config /\ root' = root)]_vars
  /\ [][last'.op = "load_legacy" =>
          /\ config' = [cache_strategy |-> "normalized", cache_size |-> 4096]
          /\ root' = root]_vars

C24_Witness ==
  /\ last.op = "load"
  /\ config.cache_strategy = "dual" /\ config.cache_size = CacheCap
  /\ root # EmptyTrie
  /\ \E n \in stored : Partial(n)

\* C25: an engine constructed without a config has the configuration last
\* passed to set_default_config (a default CIDARTHAConfig if none was), an
\* engine constructed with a config has that config whatever the global
\* default is, the capacity of its check cache is the config's
\* check_cache_size, and the engines constructed earlier keep their config.
C25_ConstructUsesConfig ==
  /\ [](\A i \in 1..Len(engines) :
          /\ engines[i].maxsize = engines[i].config.check_cache_size
          /\ engines[i].arg # None => engines[i].config = The(engines[i].arg))
  /\ [][Len(engines') = Len(engines) + 1 =>
          /\ \A i \in 1..Len(engines) : engines'[i] = engines[i]
          /\ engines'[Len(engines')].arg = None =>
               engines'[Len(engines')].config =
                 (IF last_set = None THEN CIDARTHAConfig ELSE The(last_set))]_vars
  /\ [][last_set' # last_set => engines' = engines]_vars

\* An engine made before any set_default_config, then one made after it: the
\* first keeps the default configuration, the second has the one set; a
\* third, given a config, has that one.
C25_Witness ==
  /\ Len(engines) = MaxEngines
  /\ engines[1].arg = None
  /\ engines[1].config = CIDARTHAConfig
  /\ engines[Len(engines)].arg = None
  /\ engines[Len(engines)].config = [check_cache_size |-> CacheCap]
  /\ engines[Len(engines)].maxsize = CacheCap
  /\ last_set = Some([check_cache_size |-> CacheCap])

\* C26: insert of a prefix of length 8*f + k, 1 <= k <= 7, leaves terminal,
\* with the prefix's range, the 2^(8-k) children of the depth-f node of its
\* path whose bytes lie in base .. base + 2^(8-k) - 1 (base: byte f of the
\* network address with its low 8-k bits cleared); that node gets no other
\* new child, and no other node that existed has its terminal flag or range
\* changed.
C26_Partial(text) ==
  LET f == text.len \div 8
      k == text.len % 8
      width == 2 ^ (8 - k)
      network == ip_network(text)
      base == (network.network_address[f + 1] \div width) * width
      node == SubSeq(network.network_address, 1, f)
      range == {Append(node, b) : b \in base..(base + width - 1)}
  IN  /\ Cardinality(range) = width
      /\ node \in DOMAIN root'
      /\ \A p \in range :
           /\ p \in DOMAIN root'
           /\ root'[p].is_end
           /\ root'[p].range_start = Some(network.network_address)
           /\ root'[p].range_end = Some(network.broadcast_address)
      /\ \A b \in 0..255 :
           (Append(node, b) \in DOMAIN root' /\ Append(node, b) \notin range)
             => Append(node, b) \in DOMAIN root
      /\ {p[Len(p)] : p \in range} \subseteq ChildBytes(root'[node])
      /\ \A p \in DOMAIN root \ range :
           /\ p \in DOMAIN root'
           /\ root'[p].is_end = root[p].is_end
           /\ root'[p].range_start = root[p].range_start
           /\ root'[p].range_end = root[p].range_end
      /\ \A p \in DOMAIN root' \ (DOMAIN root \cup range) : ~root'[p].is_end

C26_PartialInsertMarksRange ==
  [][(last'.op = "insert" /\ ~last'.raised /\ last'.arg.len % 8 # 0)
       => C26_Partial(last'.arg)]_vars

\* 10.10.0.0/12 went in over 10.10.0.0/16 and 10.10.3.0/23: sixteen children
\* of the node 10 are terminal with the /12's range, the node 10.10 among
\* them, and the children of 10.10 keep the /23's range.
C26_Witness ==
  /\ last.op = "insert" /\ ~last.raised
  /\ last.arg = [ip |-> <<10, 10, 0, 0>>, len |-> 12]
  /\ \A b \in 0..15 : <<10, b>> \in DOMAIN root /\ root[<<10, b>>].is_end
  /\ <<10, 16>> \notin DOMAIN root
  /\ root[<<10, 10>>].range_end = Some(<<10, 15, 255, 255>>)
  /\ <<10, 10, 2>> \in DOMAIN root
  /\ root[<<10, 10, 2>>].range_start = Some(<<10, 10, 2, 0>>)
  /\ root[<<10, 10, 2>>].range_end = Some(<<10, 10, 3, 255>>)

\* C27: with prefixes of one family whose lengths are non-zero multiples of
\* 8, after any inserts and removes check(a) is true exactly if a prefix
\* inserted and not removed since covers a: in every state for the matcher,
\* and for what every check returns.
C27_CheckIffStored ==
  /\ [](\A a \in AddressesW : check_impl(root, AsBytes(a)) = Covered(a, stored))
  /\ [][(last'.op = "check" /\ ~last'.raised)
          => last'.ret = Covered(ip_to_bytes(last'.arg), stored)]_vars

\* C27 for the addresses of the prefixes' family: there the equivalence
\* holds.
C27_SameFamilyCheckIffStored ==
  /\ [](\A a \in {x \in AddressesW : Len(x) = V4Len} :
          check_impl(root, AsBytes(a)) = Covered(a, stored))
  /\ [][(last'.op = "check" /\ ~last'.raised /\ Len(last'.arg.val) = V4Len)
          => last'.ret = Covered(ip_to_bytes(last'.arg), stored)]_vars

\* 10.10.0.0/16 is stored under a 10.0.0.0/8 that was removed, and a check
\* of an address of the /8 outside the /16 has answered false.
C27_SameFamilyWitness ==
  /\ stored = {ip_network([ip |-> <<10, 10, 0, 0>>, len |-> 16])}
  /\ phase = "mixed"
  /\ last.op = "check" /\ ~last.raised /\ ~last.ret
  /\ last.arg.val = <<10, 5, 5, 5>>

\* C28: once remove(p) or clear() has returned, a check that starts
\* afterwards does not return true for an address only removed prefixes
\* covered.  A check that starts while no mutator holds the guard and finds
\* its argument in the cache returns the cached answer (CheckLookup); so in
\* such a state the cache holds no True for an address that no stored prefix
\* covers and the trie does not match.
C28_NoTrueAfterRemoval ==
  \A t \in Threads : \A ip \in ProbesM :
    ( /\ lock.owner = 0
      /\ thr[t].pc = "idle"
      /\ ip \in CacheKeys(check_cache)
      /\ ~Covered(ip_to_bytes(ip), stored)
      /\ ~check_impl(root, ip) )
    => ~CacheGet(check_cache, ip)

\* C29: the same inserts, removes, clears and checks run on four CIDARTHA5
\* engines with the strategies "none", "simple", "normalized" and "dual"
\* (cache_size > 0): every check returns the same boolean on the four.
C29_StrategiesAgree ==
  last.op = "check" =>
    \A i, j \in DOMAIN engines :
      /\ engines[i].raised = engines[j].raised
      /\ engines[i].ret = engines[j].ret

\* C30: between completed operations, after any inserts, removes, clears and
\* batch inserts, every node but the root is terminal or has a child, and
\* the nodes are exactly the root and the children their parents list.
C30_NoEmptyNode ==
  /\ <<>> \in DOMAIN root
  /\ \A p \in DOMAIN root \ {<<>>} :
       /\ root[p].is_end \/ ~NoChildren(root[p])
       /\ SubSeq(p, 1, Len(p) - 1) \in DOMAIN root
       /\ p[Len(p)] \in ChildBytes(root[SubSeq(p, 1, Len(p) - 1)])
  /\ \A p \in DOMAIN root : \A b \in ChildBytes(root[p]) : Append(p, b) \in DOMAIN root

\* 2001:db8::/32 was removed from next to 10.0.0.0/8: its four nodes are
\* pruned up to the root, which keeps the child 10.
C30_Witness ==
  /\ last.op = "remove" /\ ~last.raised
  /\ last.arg = [ip |-> <<32, 1, 13, 184>> \o Zeros(12), len |-> 32]
  /\ phase = "rem"
  /\ stored = {ip_network([ip |-> <<10, 0, 0, 0>>, len |-> 8])}
  /\ DOMAIN root = {<<>>, <<10>>}
  /\ root[<<>>].children = Some({10})

\* C31: after any inserts and removes, every terminal node carries the
\* network and broadcast address of a prefix that is stored (inserted and not
\* removed since), and every non-terminal node carries neither.
C31_RangesOfStoredPrefixes ==
  \A p \in DOMAIN root :
    IF root[p].is_end
    THEN \E n \in stored : /\ root[p].range_start = Some(n.network_address)
                           /\ root[p].range_end = Some(n.broadcast_address)
    ELSE root[p].range_start = None /\ root[p].range_end = None

\* C31, the half about non-terminal nodes: they carry no range.
C31_NonTerminalCarriesNoRange ==
  \A p \in DOMAIN root :
    ~root[p].is_end => (root[p].range_start = None /\ root[p].range_end = None)

\* The node remove(p) resolves for a prefix of non-zero length: the node of
\* its whole bytes, or below it the child for the base byte of the partial
\* one.
C32_Target(network) ==
  LET f == network.prefixlen \div 8
      k == network.prefixlen % 8
      node == SubSeq(network.network_address, 1, f)
  IN  IF k = 0 THEN node
      ELSE Append(node, BitAnd(network.network_address[f + 1], MASKS[k]))

C32_Frame(network) ==
  LET target == C32_Target(network)
      onpath == {SubSeq(target, 1, n) : n \in 1..Len(target)}
      deleted == DOMAIN root \ DOMAIN root'
  IN  /\ DOMAIN root' \subseteq DOMAIN root
      /\ deleted \subseteq onpath
      /\ \A q \in deleted :
           /\ q # target => ~root[q].is_end
           /\ \A b \in ChildBytes(root[q]) : Append(q, b) \in deleted
           /\ \A r \in onpath : (Len(r) > Len(q) /\ r \in DOMAIN root) => r \in deleted
      /\ \A q \in onpath \cap DOMAIN root' :
           (\E b \in ChildBytes(root[q]) : Append(q, b) \in deleted)
             => (root'[q].is_end \/ ~NoChildren(root'[q]))
      /\ \A q \in DOMAIN root' :
           /\ q # target => /\ root'[q].is_end = root[q].is_end
                            /\ root'[q].range_start = root[q].range_start
                            /\ root'[q].range_end = root[q].range_end
           /\ ChildBytes(root'[q]) =
                {b \in ChildBytes(root[q]) : Append(q, b) \notin deleted}

\* C32: remove(p) of a stored prefix of non-zero length deletes only nodes of
\* p's path: going up from the target, the non-terminal nodes without
\* children, up to the first node that is terminal or has children; the nodes
\* off the path and every terminal flag but the target's stay as they were.
C32_RemoveDeletesOnlyOwnPath ==
  [][(/\ last'.op = "remove" /\ ~last'.raised
      /\ ip_network(last'.arg) \in stored
      /\ last'.arg.len # 0)
       => C32_Frame(ip_network(last'.arg))]_vars

\* 10.10.0.0/16 was removed from under 10.0.0.0/8 and next to 10.0.0.0/12:
\* its node 10.10 lost the flag and, the /12 having made siblings, the walk
\* deleted 10.10 alone.
C32_Witness ==
  /\ last.op = "remove" /\ ~last.raised
  /\ last.arg = [ip |-> <<10, 10, 0, 0>>, len |-> 16]
  /\ stored = {ip_network([ip |-> <<10, 0, 0, 0>>, len |-> 8]),
               ip_network([ip |-> <<10, 0, 0, 0>>, len |-> 12])}
  /\ <<10, 10>> \notin DOMAIN root
  /\ <<10, 9>> \in DOMAIN root /\ root[<<10, 9>>].is_end
  /\ root[<<10>>].is_end

\* The trie with every range dropped.
C33_Scrub(t) == [p \in DOMAIN t |-> [t[p] EXCEPT !.range_start = None, !.range_end = None]]

\* Walking down the bytes of a, a terminal node is reached: the root, or a
\* node at depth n with every node above it present and non-terminal.
C33_TerminalReached(t, a) ==
  \E n \in 0..Len(a) :
    /\ \A m \in 0..n : SubSeq(a, 1, m) \in DOMAIN t
    /\ \A m \in 1..n : a[m] \in ChildBytes(t[SubSeq(a, 1, m - 1)])
    /\ \A m \in 0..(n - 1) : ~t[SubSeq(a, 1, m)].is_end
    /\ t[SubSeq(a, 1, n)].is_end

\* C33: check leaves the trie as it is, and its answer is read off the
\* terminal flags along the address's bytes alone, never off the ranges: true
\* at the first terminal node reached (the root included), false at a
\* missing child or at the end of the bytes, after at most one descent per
\* byte.
C33_CheckReadsFlagsOnly ==
  /\ [](\A a \in Addresses :
          /\ check_bytes_impl(root, a) = C33_TerminalReached(root, a)
          /\ check_bytes_impl(root, a) = check_bytes_impl(C33_Scrub(root), a)
          /\ CheckDescents(root, a, 1) <= Len(a))
  /\ [][(last'.op = "check" /\ ~last'.raised)
          => /\ root' = root
             /\ last'.ret = C33_TerminalReached(root, ip_to_bytes(last'.arg))]_vars

\* A check of 10.10.5.5 has answered true at the node 10.10, below the
\* non-terminal node 10, after two descents; the trie is the one before.
C33_Witness ==
  /\ last.op = "check" /\ ~last.raised /\ last.ret
  /\ last.arg = [kind |-> "bytes", val |-> <<10, 10, 5, 5>>]
  /\ ~root[<<>>].is_end
  /\ <<10>> \in DOMAIN root /\ ~root[<<10>>].is_end
  /\ root[<<10, 10>>].is_end
  /\ CheckDescents(root, <<10, 10, 5, 5>>, 1) = 2

\* C34, the guard: it is free exactly when no thread is inside a mutator,
\* after a call that raised and after remove of a /0 prefix too, and a
\* thread inside a mutator owns it.
C34_GuardFreeOutsideMutators ==
  /\ (lock.owner = 0) = (\A t \in Threads : ~Mutating(t))
  /\ \A t \in Threads : Mutating(t) => (lock.owner = t /\ lock.count = 1)

\* C34, termination of the calls that entered: a thread inside a call gets
\* back to between calls.
C34_EnteredCallsEnd ==
  \A t \in Threads : (thr[t].pc # "idle") ~> (thr[t].pc = "idle")

\* C34, no deadlock: while a thread waits, the guard is taken again and
\* again.
C34_SomeWaiterEnters ==
  (waiting # {}) ~> (lock.owner # 0)

RECURSIVE C35_Closure(_, _)
C35_Closure(S, n) ==
  IF n = 0 THEN S
  ELSE C35_Closure(S \cup {insert_cidr4(T, ip_network(c)) :
                             T \in S, c \in {x \in CidrsS : ValidCidr(x)}}, n - 1)

C35_Quiescent == C35_Closure({EmptyTrie}, 4)

\* C35, first part: a dump that runs beside mutators returns without an
\* error.
C35_DumpCompletes ==
  \A t \in Threads : thr[t].op = "dump" => ~thr[t].raised

\* C35, second part: what a dump returns encodes a trie as it stood between
\* two complete mutator calls.
C35_DumpEncodesQuiescentTrie ==
  \A t \in Threads :
    thr[t].op = "dump" /\ thr[t].out # None
      => \E T \in C35_Quiescent : The(thr[t].out) = dump(T)

\* C35: dump() beside insert, batch_insert and clear on the same engine
\* completes without error and encodes the trie as it stood between two
\* complete mutator calls, never one with a mutator's changes partly applied.
C35_DumpIsAtomicSnapshot ==
  /\ C35_DumpCompletes
  /\ C35_DumpEncodesQuiescentTrie


\* What check(ip) on engine e gives in a state: whether it raises, and its
\* answer.
C36_Answer(es, cache, e, ip) ==
  <<check4(es, cache, e, ip).raised, check4(es, cache, e, ip).ret>>

\* C36: a call of insert, remove, clear, batch_insert or check on one engine
\* leaves the trie of the other engine and the result of every check on the
\* other engine as they were, although the mutators clear the text-to-bytes
\* cache both engines share.
C36_EnginesIsolated ==
  [][\A e \in 1..2 :
       last'.engine = e
         => /\ engines'[3 - e].root = engines[3 - e].root
            /\ \A ip \in ProbesE :
                 C36_Answer(engines', bytes_cache', 3 - e, ip)
                   = C36_Answer(engines, bytes_cache, 3 - e, ip)]_vars

\* A mutator of engine 1 has just dropped texts from the shared cache, and
\* engine 2 holds a trie of its own, different from engine 1's, and a cached
\* answer.
C36_Witness ==
  /\ last.engine = 1
  /\ last.op \in {"insert", "remove", "clear", "batch_insert"}
  /\ last.dropped # {}
  /\ engines[2].root # EmptyTrie
  /\ engines[2].root # engines[1].root
  /\ engines[2].check_cache # <<>>


\* C37: after any sequence of insert, remove, batch_insert, clear and load,
\* the children of every node of the trie are either absent or at least one.
C37_NoEmptyContainer ==
  \A p \in DOMAIN root : root[p].children = None \/ The(root[p].children) # {}

\* 10.10.0.0/16 was removed from under 10.0.0.0/8: the node 10 stays, being
\* terminal, and its children, down to none, are absent again.
C37_Witness ==
  /\ last.op = "remove" /\ ~last.raised
  /\ last.arg = [ip |-> <<10, 10, 0, 0>>, len |-> 16]
  /\ phase = "rem"
  /\ stored = {ip_network([ip |-> <<10, 0, 0, 0>>, len |-> 8])}
  /\ DOMAIN root = {<<>>, <<10>>}
  /\ root[<<10>>].is_end
  /\ root[<<10>>].children = None

====
